---- MODULE Spec2Model ----
(***************************************************************************)
(* obj-overlap-cleaner: the carve pipeline of src/model.rs (mark phase,    *)
(* delete phase, Model fan-outs) and the staged worker-pool driver of      *)
(* src/world.rs and src/io.rs.                                             *)
(*                                                                         *)
(* Rust vectors are 0-indexed; they are modelled as TLA+ sequences, so the *)
(* element with Rust index i is seq[i + 1].  Vertex indices stored in      *)
(* `indices`, `overlapping_vertice_idxs` and `indices_to_delete` keep      *)
(* their 0-based Rust values.                                              *)
(***************************************************************************)
EXTENDS Integers, Sequences, FiniteSets, TLC

\* ------------------------------------------------------------------------
\* Bounds of the model
\* ------------------------------------------------------------------------
MaxV == 4        \* largest vertex count of a generated mesh
MaxRep == 2      \* how many HQ contributors may record the same overlap set
MaxMeshes == 2   \* largest number of meshes in a generated multi-mesh Model

\* ------------------------------------------------------------------------
\* Option<T>
\* ------------------------------------------------------------------------
None == [some |-> FALSE, val |-> <<>>]
Some(v) == [some |-> TRUE, val |-> v]

Range(s) == {s[i] : i \in 1..Len(s)}

\* ------------------------------------------------------------------------
\* MeshContainer (src/model.rs)
\* ------------------------------------------------------------------------

\* slice::chunks_exact(3): the number of whole triangles of an index list
NumTris(indices) == Len(indices) \div 3

\* the three corner indices of the t-th chunk (t = 1..NumTris)
Tri(indices, t) == <<indices[3 * t - 2], indices[3 * t - 1], indices[3 * t]>>

\* TriMesh::vertex_count
vertex_count(mesh) == Len(mesh.positions)

\* MeshContainer::new: carving state of a freshly loaded mesh
MeshContainer_new(positions, indices, uvs, normals, material) ==
    [positions |-> positions,
     indices |-> indices,
     uvs |-> uvs,
     normals |-> normals,
     material |-> material,
     overlapping_vertice_idxs |-> <<>>,
     to_be_deleted |-> FALSE,
     indices_to_delete |-> {}]

\* variant: a recorded overlap alone does not count as a modification
MeshContainer_modified_flag_only(m) ==
    m.to_be_deleted

\* MeshContainer::modified
MeshContainer_modified(m) ==
    m.to_be_deleted \/ m.overlapping_vertice_idxs # <<>>

\* the "whole mesh" shortcut of mark_vertices_to_delete (model.rs:255)
WholeMeshShortcut(m) ==
    Len(m.overlapping_vertice_idxs) = Len(m.indices)

\* variant: a triangle counts as a boundary triangle only when its first
\* corner is not overlapping
indices_to_keep_first_corner(indices, D) ==
    {v \in D : \E t \in 1..NumTris(indices) :
        LET tri == Tri(indices, t)
        IN  /\ tri[1] \notin D
            /\ \E k \in 1..3 : tri[k] \in D /\ tri[k] = v}

\* indices_to_keep of mark_vertices_to_delete: the corners that are in D and
\* sit in a triangle that has both overlapping and non-overlapping corners
indices_to_keep(indices, D) ==
    {v \in D : \E t \in 1..NumTris(indices) :
        LET tri == Tri(indices, t)
            overlapping == [k \in 1..3 |-> tri[k] \in D]
        IN  /\ ~(\A k \in 1..3 : overlapping[k])
            /\ ~(\A k \in 1..3 : ~overlapping[k])
            /\ \E k \in 1..3 : overlapping[k] /\ tri[k] = v}

\* variant: the retained boundary corners are not taken out of the set
MeshContainer_mark_vertices_to_delete_no_keep(m) ==
    IF m.overlapping_vertice_idxs = <<>>
    THEN m
    ELSE IF WholeMeshShortcut(m)
    THEN [m EXCEPT !.to_be_deleted = TRUE]
    ELSE [m EXCEPT !.indices_to_delete = Range(m.overlapping_vertice_idxs)]

\* MeshContainer::mark_vertices_to_delete
MeshContainer_mark_vertices_to_delete(m) ==
    IF m.overlapping_vertice_idxs = <<>>
    THEN m
    ELSE IF WholeMeshShortcut(m)
    THEN [m EXCEPT !.to_be_deleted = TRUE]
    ELSE LET D == Range(m.overlapping_vertice_idxs)
         IN  [m EXCEPT !.indices_to_delete = D \ indices_to_keep(m.indices, D)]

\* variant: the UV is pushed before the deleted vertex is skipped
RECURSIVE ScanVertices_uv_before_skip(_, _, _)
ScanVertices_uv_before_skip(m, old_idx, acc) ==
    IF old_idx >= vertex_count(m)
    THEN acc
    ELSE LET uvs == IF m.uvs.some
                    THEN Append(acc.new_uvs, m.uvs.val[old_idx + 1])
                    ELSE acc.new_uvs
         IN  IF old_idx \in m.indices_to_delete
             THEN ScanVertices_uv_before_skip(m, old_idx + 1,
                    [acc EXCEPT !.new_uvs = uvs])
             ELSE ScanVertices_uv_before_skip(m, old_idx + 1,
                    [new_vertices |->
                        Append(acc.new_vertices, m.positions[old_idx + 1]),
                     new_uvs |-> uvs,
                     remap |-> [acc.remap EXCEPT
                                    ![old_idx + 1] = Len(acc.new_vertices)]])

\* The vertex scan of do_delete_vertices (model.rs:313-325), old_idx = 0..V-1.
\* acc.remap[old_idx + 1] is -1 for None and the new index for Some.
RECURSIVE ScanVertices(_, _, _)
ScanVertices(m, old_idx, acc) ==
    IF old_idx >= vertex_count(m)
    THEN acc
    ELSE IF old_idx \in m.indices_to_delete
    THEN ScanVertices(m, old_idx + 1, acc)
    ELSE ScanVertices(m, old_idx + 1,
            [new_vertices |-> Append(acc.new_vertices, m.positions[old_idx + 1]),
             new_uvs |-> IF m.uvs.some
                         THEN Append(acc.new_uvs, m.uvs.val[old_idx + 1])
                         ELSE acc.new_uvs,
             remap |-> [acc.remap EXCEPT ![old_idx + 1] = Len(acc.new_vertices)]])

\* variant: the third distinctness test (i2 != i0) is missing
KeepTriangle_two_tests(i0, i1, i2) ==
    /\ i0 # -1 /\ i1 # -1 /\ i2 # -1
    /\ i0 # i1 /\ i1 # i2

\* a triangle survives when its three corners survived and are pairwise distinct
KeepTriangle(i0, i1, i2) ==
    /\ i0 # -1 /\ i1 # -1 /\ i2 # -1
    /\ i0 # i1 /\ i1 # i2 /\ i2 # i0

\* The triangle rebuild of do_delete_vertices (model.rs:327-339)
RECURSIVE RebuildIndices(_, _, _, _)
RebuildIndices(indices, remap, t, new_indices) ==
    IF t > NumTris(indices)
    THEN new_indices
    ELSE LET tri == Tri(indices, t)
             i0 == remap[tri[1] + 1]
             i1 == remap[tri[2] + 1]
             i2 == remap[tri[3] + 1]
         IN  RebuildIndices(indices, remap, t + 1,
                IF KeepTriangle(i0, i1, i2)
                THEN new_indices \o <<i0, i1, i2>>
                ELSE new_indices)

\* what mesh.uvs becomes (model.rs:344-347)
StoreUvs(new_uvs) == IF new_uvs = <<>> THEN None ELSE Some(new_uvs)

\* MeshContainer::do_delete_vertices
MeshContainer_do_delete_vertices(m) ==
    LET scan == ScanVertices(m, 0,
                    [new_vertices |-> <<>>,
                     new_uvs |-> <<>>,
                     remap |-> [i \in 1..vertex_count(m) |-> -1]])
    IN  [m EXCEPT !.positions = scan.new_vertices,
                  !.indices = RebuildIndices(m.indices, scan.remap, 1, <<>>),
                  !.uvs = StoreUvs(scan.new_uvs),
                  !.normals = FALSE]

\* ------------------------------------------------------------------------
\* Model (src/model.rs)
\* ------------------------------------------------------------------------

\* Model::modified
Model_modified(mdl) ==
    \E i \in 1..Len(mdl.meshes) : MeshContainer_modified(mdl.meshes[i])

\* Model::mark_vertices_to_delete
Model_mark_vertices_to_delete(mdl) ==
    [mdl EXCEPT !.meshes =
        [i \in 1..Len(mdl.meshes) |->
            MeshContainer_mark_vertices_to_delete(mdl.meshes[i])]]

\* variant: any flagged mesh drops the Model
Model_to_be_deleted_any(mdl) ==
    \E i \in 1..Len(mdl.meshes) : mdl.meshes[i].to_be_deleted

\* Model::to_be_deleted
Model_to_be_deleted(mdl) ==
    \A i \in 1..Len(mdl.meshes) : mdl.meshes[i].to_be_deleted

\* Model::do_delete_vertices: flagged meshes are removed, the others carved
RECURSIVE DeleteMeshes(_, _)
DeleteMeshes(meshes, idx) ==
    IF idx > Len(meshes)
    THEN <<>>
    ELSE IF meshes[idx].to_be_deleted
    THEN DeleteMeshes(meshes, idx + 1)
    ELSE <<MeshContainer_do_delete_vertices(meshes[idx])>>
            \o DeleteMeshes(meshes, idx + 1)

Model_do_delete_vertices(mdl) ==
    [mdl EXCEPT !.meshes = DeleteMeshes(mdl.meshes, 1)]

\* ModelReference::from_model
ModelReference_from_model(mdl, texture_downscale_factor) ==
    [source_file |-> mdl.source_file,
     materials |-> [i \in 1..Len(mdl.meshes) |-> mdl.meshes[i].material],
     texture_downscale_factor |-> texture_downscale_factor]

\* OutAsset
AssetRef(ref) == [kind |-> "AssetRef", ref |-> ref]
Asset(mdl) == [kind |-> "Asset", model |-> mdl]


\* ------------------------------------------------------------------------
\* Generated inputs: NQ meshes as they stand when Stage 3 begins
\* ------------------------------------------------------------------------
Verts(V) == 0..(V - 1)

\* positions and UVs are tagged with the vertex's original index, so that a
\* misaligned remap shows
PositionsOf(V) == [i \in 1..V |-> <<"p", i - 1>>]
UvsOf(V) == [i \in 1..V |-> <<"uv", i - 1>>]

\* k triangles of a strip: (0,1,2), (1,2,3), ...
Strip(k) == [j \in 1..(3 * k) |-> ((j - 1) \div 3) + ((j - 1) % 3)]
StripLen(V) == IF V >= 3 THEN V - 2 ELSE 0

\* one further triangle, possibly degenerate
ExtraTris(V) ==
    {<<>>} \cup
    {<<a, b, c>> : <<a, b, c>> \in
        {t \in Verts(V) \X Verts(V) \X Verts(V) :
            (t[1] <= t[2] /\ t[2] <= t[3]) \/ t[1] = t[3]}}

\* no strip (isolated vertices) or the whole strip, then the further triangle
IndexLists(V) == {Strip(k) \o e : k \in {0, StripLen(V)}, e \in ExtraTris(V)}

Ascending(S) ==
    [k \in 1..Cardinality(S) |->
        CHOOSE v \in S : Cardinality({u \in S : u < v}) = k - 1]

Repeat(s, r) == [j \in 1..(r * Len(s)) |-> s[((j - 1) % Len(s)) + 1]]

\* s repeated and cut to n entries
Cycle(s, n) == [j \in 1..n |-> s[((j - 1) % Len(s)) + 1]]

\* calc_overlapping_vertice_idxs lists vertex indices in ascending order and
\* every contributor appends its list.  Generated: r contributors that cover
\* the same vertices S, and contributors that together record S in exactly as
\* many entries as the mesh has indices.
OvListsOf(sets, indices) ==
    {Repeat(Ascending(S), r) : S \in sets, r \in 1..MaxRep}
    \cup {Cycle(Ascending(S), Len(indices)) : S \in sets \ {{}}}

OvLists(V, indices) == OvListsOf(SUBSET Verts(V), indices)

LoadedMesh(V, indices, uvs, ov) ==
    [MeshContainer_new(PositionsOf(V), indices, uvs, TRUE, "mtl")
        EXCEPT !.overlapping_vertice_idxs = ov]

\* An NQ mesh that reaches Stage 3 has UVs: model_load_runner unwraps them
\* (io.rs:41).
RichMeshes ==
    UNION {UNION {{LoadedMesh(V, ind, Some(UvsOf(V)), ov) :
                ov \in OvLists(V, ind)} : ind \in IndexLists(V)} : V \in 0..MaxV}

\* one-triangle meshes, for Models of several meshes
SmallMeshes ==
    {LoadedMesh(3, Strip(1), Some(UvsOf(3)), ov) :
        ov \in OvListsOf({Verts(k) : k \in 0..3}, Strip(1))}

RECURSIVE SeqsOfLen(_, _)
SeqsOfLen(S, n) ==
    IF n = 0 THEN {<<>>}
    ELSE {Append(s, x) : s \in SeqsOfLen(S, n - 1), x \in S}

MeshLists ==
    {<<m>> : m \in RichMeshes}
    \cup UNION {SeqsOfLen(SmallMeshes, n) : n \in (0..MaxMeshes) \ {1}}

NQPath(n) == <<"nq", n>>
HQPath(h) == <<"hq", h>>

ModelOf(meshes) == [source_file |-> NQPath(1), meshes |-> meshes]

\* ------------------------------------------------------------------------
\* The worker pool and the input folders (src/world.rs, src/io.rs)
\* ------------------------------------------------------------------------
NumWorkers == 2   \* num_os_threads
NumNQ == 2        \* .obj files in the normal asset folder
NumHQ == 2        \* .obj files in the HQ asset folders
NumScenes == 2    \* geometric arrangements of the NQ and HQ files

Workers == 1..NumWorkers
NQFiles == 1..NumNQ
HQFiles == 1..NumHQ
Scenes == 0..(NumScenes - 1)

\* How HQ file h lies over NQ file n in scene sc: their Model AABBs are
\* disjoint, or they intersect and h covers no vertex, vertex 0, or every
\* vertex of n's mesh.
Coverage(sc, n, h) ==
    LET k == (n + h + sc) % 4
    IN  IF k = 0 THEN "disjoint"
        ELSE IF k = 1 THEN "none"
        ELSE IF k = 2 THEN "corner"
        ELSE "all"

\* Model::try_new_from_file(path, true, false) of an NQ file: file n holds
\* n meshes of one triangle each
Model_try_new_from_file_nq(n) ==
    [source_file |-> NQPath(n),
     meshes |-> [k \in 1..n |-> LoadedMesh(3, Strip(1), Some(UvsOf(3)), <<>>)]]

\* Model::try_new_from_file(path, false, true) of an HQ file; only what
\* ModelReference::from_model reads is kept
Model_try_new_from_file_hq(h) ==
    [source_file |-> HQPath(h), meshes |-> <<[material |-> "mtl"]>>]

\* asset_read.aabb.intersection(hq_asset.aabb).is_some()
AabbIntersects(sc, nq, hq) ==
    Coverage(sc, nq.source_file[2], hq.source_file[2]) # "disjoint"

\* mesh.calc_overlapping_vertice_idxs(hq_mesh) for mesh k of nq and the mesh
\* of hq: an HQ file that covers no vertex of the NQ file covers none of any
\* of its meshes; otherwise the first mesh is covered as the file is and the
\* further meshes lie differently under the same HQ file
calc_overlapping_vertice_idxs(sc, nq, k, hq) ==
    LET n == nq.source_file[2]
        h == hq.source_file[2]
        c == IF Coverage(sc, n, h) \in {"disjoint", "none"}
             THEN Coverage(sc, n, h)
             ELSE Coverage(sc, n + k - 1, h)
    IN  IF c = "all" THEN Ascending(Verts(3))
        ELSE IF c = "corner" THEN <<0>>
        ELSE <<>>

\* the staging lists `overlaps` of hq_asset_worker (world.rs:49-61)
StageOverlaps(sc, nq, hq) ==
    IF AabbIntersects(sc, nq, hq)
    THEN [k \in 1..Len(nq.meshes) |->
            calc_overlapping_vertice_idxs(sc, nq, k, hq)]
    ELSE <<>>

\* no_overlaps (world.rs:63)
no_overlaps(ov) == ov = <<>> \/ \A k \in 1..Len(ov) : ov[k] = <<>>

\* an append loop that stores the staged list in place of the recorded one
ExtendOverlaps_overwrite(nq, ov) ==
    [nq EXCEPT !.meshes =
        [k \in 1..Len(nq.meshes) |->
            IF k <= Len(ov)
            THEN [nq.meshes[k] EXCEPT !.overlapping_vertice_idxs = ov[k]]
            ELSE nq.meshes[k]]]

\* the append loop under the write lock (world.rs:68-72)
ExtendOverlaps(nq, ov) ==
    [nq EXCEPT !.meshes =
        [k \in 1..Len(nq.meshes) |->
            IF k <= Len(ov)
            THEN [nq.meshes[k] EXCEPT !.overlapping_vertice_idxs = @ \o ov[k]]
            ELSE nq.meshes[k]]]

\* messages (src/messages.rs)
Task(n) == [kind |-> "Task", path |-> n]
Terminate == [kind |-> "Terminate"]
ModelResponse(mdl) == [kind |-> "Model", model |-> mdl]
Terminated == [kind |-> "Terminated"]

\* a join that returns without waiting for the thread
Joinable_no_wait(pc) == TRUE

\* JoinHandle::join returns once the thread has returned or panicked
Joinable(pc) == pc \in {"returned", "panicked"}

\* The order in which the program calls the stage methods of WorldAssets
StageOrder ==
    <<"new", "process_overlaps", "mark_and_delete_vertices", "write_to_folder",
      "exit">>

StageAfter(stage) ==
    StageOrder[(CHOOSE i \in 1..Len(StageOrder) : StageOrder[i] = stage) + 1]

\* ------------------------------------------------------------------------
\* State
\* ------------------------------------------------------------------------
VARIABLES
    proc,           \* "running", "aborted" (main thread panicked) or "exited"
    dpc,            \* position of the driver (main thread)
    di,             \* loop index of the driver's current for-loop
    scene,          \* geometry of the input files
    tx_task,        \* channel of ModelLoadTask
    tx_resp,        \* channel of ModelLoadTaskResponse
    lpc,            \* position of each model_load_runner
    ltask,          \* the path each model_load_runner is loading
    num_running,    \* WorldAssets::new: workers not yet terminated
    normal_assets,  \* the NQ pool, Vec<Arc<RwLock<Model>>>
    readers,        \* per pool entry: workers holding its read lock
    writer,         \* per pool entry: worker holding its write lock, or 0
    hq_asset_files, \* enumerated HQ paths
    process_queue,  \* Stage 2 queue of HQ paths
    hq_refs,        \* hq_asset_references
    hpc,            \* position of each hq_asset_worker
    hq_asset,       \* the HQ Model each hq_asset_worker has loaded
    hn,             \* index into the pool of each hq_asset_worker
    overlaps,       \* staging lists of each hq_asset_worker
    out_assets,     \* WorldAssets::out_assets
    assets,         \* Stage 3 task queue (Vec<Model>, popped from the back)
    results,        \* Vec<OutAsset> the carve workers push to
    cw_pc,          \* position of each mark_and_delete_vertices_worker
    cw_model,       \* the Model each carve worker has popped
    tasks,          \* write stage queue of OutAsset
    wpc,            \* position of each write_to_folder_worker
    out_asset,      \* the OutAsset each write worker has popped
    dest,           \* what has been written to the destination folder
    textures,       \* per destination texture path: times it was written
    wtex,           \* textures each write worker has still to process
    input,          \* the Model as it entered the carve queue (history)
    gpc,            \* position of a geometric query on its own
    gin,            \* the arguments of the geometric query
    gout            \* its result

driverVars == <<proc, dpc, di, scene>>
loadVars == <<tx_task, tx_resp, lpc, ltask, num_running>>
poolVars == <<normal_assets, readers, writer>>
hqVars == <<hq_asset_files, process_queue, hq_refs, hpc, hq_asset, hn, overlaps>>
carveVars == <<assets, results, cw_pc, cw_model>>
texVars == <<textures, wtex>>
writeVars == <<tasks, wpc, out_asset, dest, texVars>>
geomVars == <<gpc, gin, gout>>
vars == <<driverVars, loadVars, poolVars, hqVars, out_assets, carveVars,
          writeVars, input, geomVars>>

NoModel == ModelOf(<<>>)
NoTextures == [t \in {} |-> 0]
NoGeometry == gpc = "idle" /\ gin = <<>> /\ gout = <<>>
NoAsset == [kind |-> "None"]

\* ------------------------------------------------------------------------
\* Stage 1: model_load_runner (src/io.rs:16-60)
\* ------------------------------------------------------------------------

\* rx.lock(), receiver.recv(): the next task of the shared channel
LoaderRecv(w) ==
    /\ proc = "running"
    /\ lpc[w] = "recv"
    /\ tx_task # <<>>
    /\ LET msg == Head(tx_task)
       IN  IF msg.kind = "Task"
           THEN /\ lpc' = [lpc EXCEPT ![w] = "load"]
                /\ ltask' = [ltask EXCEPT ![w] = msg.path]
           ELSE /\ lpc' = [lpc EXCEPT ![w] = "terminate"]
                /\ UNCHANGED ltask
    /\ tx_task' = Tail(tx_task)
    /\ UNCHANGED <<driverVars, tx_resp, num_running, poolVars, hqVars,
                   out_assets, carveVars, writeVars, input,
                   geomVars>>

\* Model::try_new_from_file succeeds, the meshes have UVs: the Model is sent
LoaderLoadOk(w) ==
    /\ proc = "running"
    /\ lpc[w] = "load"
    /\ tx_resp' = Append(tx_resp,
                    ModelResponse(Model_try_new_from_file_nq(ltask[w])))
    /\ lpc' = [lpc EXCEPT ![w] = "recv"]
    /\ ltask' = [ltask EXCEPT ![w] = 0]
    /\ UNCHANGED <<driverVars, tx_task, num_running, poolVars, hqVars,
                   out_assets, carveVars, writeVars, input,
                   geomVars>>

\* the load fails (io.rs:32) or a mesh has no UVs (io.rs:41): the worker
\* thread panics; its Sender is dropped, the driver's own Sender lives on
LoaderLoadPanic(w) ==
    /\ proc = "running"
    /\ lpc[w] = "load"
    /\ lpc' = [lpc EXCEPT ![w] = "panicked"]
    /\ ltask' = [ltask EXCEPT ![w] = 0]
    /\ UNCHANGED <<driverVars, tx_task, tx_resp, num_running, poolVars,
                   hqVars, out_assets, carveVars, writeVars, input,
                   geomVars>>

\* a worker that answers a Terminate and goes on receiving
LoaderTerminate_goes_on(w) ==
    /\ proc = "running"
    /\ lpc[w] = "terminate"
    /\ tx_resp' = Append(tx_resp, Terminated)
    /\ lpc' = [lpc EXCEPT ![w] = "recv"]
    /\ UNCHANGED <<driverVars, tx_task, ltask, num_running, poolVars, hqVars,
                   out_assets, carveVars, writeVars, input,
                   geomVars>>

\* ModelLoadTask::Terminate: tx.send(Terminated); return.  The thread is
\* never joined.
LoaderTerminate(w) ==
    /\ proc = "running"
    /\ lpc[w] = "terminate"
    /\ tx_resp' = Append(tx_resp, Terminated)
    /\ lpc' = [lpc EXCEPT ![w] = "returned"]
    /\ UNCHANGED <<driverVars, tx_task, ltask, num_running, poolVars, hqVars,
                   out_assets, carveVars, writeVars, input,
                   geomVars>>

\* ------------------------------------------------------------------------
\* Stage 1: WorldAssets::new (src/world.rs:146-205)
\* ------------------------------------------------------------------------

\* the spawn loop (world.rs:161-168)
DrvSpawnLoaders ==
    /\ proc = "running"
    /\ dpc = "new"
    /\ lpc' = [w \in Workers |-> "recv"]
    /\ num_running' = NumWorkers
    /\ dpc' = "new_send_tasks"
    /\ di' = 1
    /\ UNCHANGED <<proc, scene, tx_task, tx_resp, ltask, poolVars, hqVars,
                   out_assets, carveVars, writeVars, input,
                   geomVars>>

\* scan_folder_and_create_tasks: one Task per NQ file (io.rs:81-91)
DrvSendTask ==
    /\ proc = "running"
    /\ dpc = "new_send_tasks"
    /\ tx_task' = Append(tx_task, Task(di))
    /\ IF di = NumNQ
       THEN dpc' = "new_send_terminate" /\ di' = 1
       ELSE dpc' = dpc /\ di' = di + 1
    /\ UNCHANGED <<proc, scene, tx_resp, lpc, ltask, num_running, poolVars,
                   hqVars, out_assets, carveVars, writeVars, input,
                   geomVars>>

\* one Terminate per worker (world.rs:173-177); after the last one the HQ
\* folders are scanned (world.rs:182-186)
DrvSendTerminate ==
    /\ proc = "running"
    /\ dpc = "new_send_terminate"
    /\ tx_task' = Append(tx_task, Terminate)
    /\ IF di = NumWorkers
       THEN /\ dpc' = "new_collect"
            /\ di' = 1
            /\ hq_asset_files' = [i \in 1..NumHQ |-> i]
       ELSE /\ dpc' = dpc
            /\ di' = di + 1
            /\ UNCHANGED hq_asset_files
    /\ UNCHANGED <<proc, scene, tx_resp, lpc, ltask, num_running, poolVars,
                   process_queue, hq_refs, hpc, hq_asset, hn, overlaps,
                   out_assets, carveVars, writeVars, input,
                   geomVars>>

\* while num_running > 0 { rx_resp.recv() ... } (world.rs:189-197)
DrvCollect ==
    /\ proc = "running"
    /\ dpc = "new_collect"
    /\ num_running > 0
    /\ tx_resp # <<>>
    /\ LET resp == Head(tx_resp)
       IN  IF resp.kind = "Model"
           THEN /\ normal_assets' = Append(normal_assets, resp.model)
                /\ readers' = Append(readers, {})
                /\ writer' = Append(writer, 0)
                /\ UNCHANGED num_running
           ELSE /\ num_running' = num_running - 1
                /\ UNCHANGED poolVars
    /\ tx_resp' = Tail(tx_resp)
    /\ UNCHANGED <<driverVars, tx_task, lpc, ltask, hqVars, out_assets,
                   carveVars, writeVars, input,
                   geomVars>>

\* num_running = 0: WorldAssets::new returns
DrvNewReturn ==
    /\ proc = "running"
    /\ dpc = "new_collect"
    /\ num_running = 0
    /\ dpc' = StageAfter("new")
    /\ UNCHANGED <<proc, di, scene, loadVars, poolVars, hqVars, out_assets,
                   carveVars, writeVars, input,
                   geomVars>>

\* ------------------------------------------------------------------------
\* Stage 2: hq_asset_worker (src/world.rs:20-84)
\* ------------------------------------------------------------------------

\* a worker that reads the last path of the queue and leaves it there
HqPop_leave_in_queue(w) ==
    /\ proc = "running"
    /\ hpc[w] = "loop"
    /\ process_queue # <<>>
    /\ hq_asset' = [hq_asset EXCEPT ![w] =
            Model_try_new_from_file_hq(process_queue[Len(process_queue)])]
    /\ hn' = [hn EXCEPT ![w] = 1]
    /\ hpc' = [hpc EXCEPT ![w] = "scan"]
    /\ UNCHANGED <<driverVars, loadVars, poolVars, hq_asset_files, hq_refs,
                   process_queue, overlaps, out_assets, carveVars, writeVars,
                   input, geomVars>>

\* files.pop() yields Some(path) and Model::try_new_from_file(..).unwrap()
\* succeeds
HqPop(w) ==
    /\ proc = "running"
    /\ hpc[w] = "loop"
    /\ process_queue # <<>>
    /\ hq_asset' = [hq_asset EXCEPT ![w] =
            Model_try_new_from_file_hq(process_queue[Len(process_queue)])]
    /\ process_queue' = SubSeq(process_queue, 1, Len(process_queue) - 1)
    /\ hn' = [hn EXCEPT ![w] = 1]
    /\ hpc' = [hpc EXCEPT ![w] = "scan"]
    /\ UNCHANGED <<driverVars, loadVars, poolVars, hq_asset_files, hq_refs,
                   overlaps, out_assets, carveVars, writeVars, input,
                   geomVars>>

\* files.pop() yields Some(path) and Model::try_new_from_file(..).unwrap()
\* panics the worker thread
HqLoadPanic(w) ==
    /\ proc = "running"
    /\ hpc[w] = "loop"
    /\ process_queue # <<>>
    /\ process_queue' = SubSeq(process_queue, 1, Len(process_queue) - 1)
    /\ hpc' = [hpc EXCEPT ![w] = "panicked"]
    /\ UNCHANGED <<driverVars, loadVars, poolVars, hq_asset_files, hq_refs,
                   hq_asset, hn, overlaps, out_assets, carveVars, writeVars,
                   input, geomVars>>

\* files.pop() yields None: the worker returns
HqReturn(w) ==
    /\ proc = "running"
    /\ hpc[w] = "loop"
    /\ process_queue = <<>>
    /\ hpc' = [hpc EXCEPT ![w] = "returned"]
    /\ UNCHANGED <<driverVars, loadVars, poolVars, hq_asset_files,
                   process_queue, hq_refs, hq_asset, hn, overlaps, out_assets,
                   carveVars, writeVars, input,
                   geomVars>>

\* asset_clone.read(), then the staging lists are computed under the read lock
HqRead(w) ==
    /\ proc = "running"
    /\ hpc[w] = "scan"
    /\ hn[w] <= Len(normal_assets)
    /\ writer[hn[w]] = 0
    /\ readers' = [readers EXCEPT ![hn[w]] = @ \cup {w}]
    /\ overlaps' = [overlaps EXCEPT ![w] =
            StageOverlaps(scene, normal_assets[hn[w]], hq_asset[w])]
    /\ hpc' = [hpc EXCEPT ![w] = "reading"]
    /\ UNCHANGED <<driverVars, loadVars, normal_assets, writer, hq_asset_files,
                   process_queue, hq_refs, hq_asset, hn, out_assets, carveVars,
                   writeVars, input,
                   geomVars>>

\* a worker that keeps its read guard while it asks for the write lock
HqRelease_keep_read(w) ==
    /\ proc = "running"
    /\ hpc[w] = "reading"
    /\ IF no_overlaps(overlaps[w])
       THEN /\ readers' = [readers EXCEPT ![hn[w]] = @ \ {w}]
            /\ hn' = [hn EXCEPT ![w] = @ + 1]
            /\ overlaps' = [overlaps EXCEPT ![w] = <<>>]
            /\ hpc' = [hpc EXCEPT ![w] = "scan"]
       ELSE /\ hpc' = [hpc EXCEPT ![w] = "want_write"]
            /\ UNCHANGED <<readers, hn, overlaps>>
    /\ UNCHANGED <<driverVars, loadVars, normal_assets, writer, hq_asset_files,
                   process_queue, hq_refs, hq_asset, out_assets, carveVars,
                   writeVars, input,
                   geomVars>>

\* the read guard is dropped: at the end of the iteration when nothing was
\* staged, by drop(asset_read) otherwise
HqRelease(w) ==
    /\ proc = "running"
    /\ hpc[w] = "reading"
    /\ readers' = [readers EXCEPT ![hn[w]] = @ \ {w}]
    /\ IF no_overlaps(overlaps[w])
       THEN /\ hn' = [hn EXCEPT ![w] = @ + 1]
            /\ overlaps' = [overlaps EXCEPT ![w] = <<>>]
            /\ hpc' = [hpc EXCEPT ![w] = "scan"]
       ELSE /\ hpc' = [hpc EXCEPT ![w] = "want_write"]
            /\ UNCHANGED <<hn, overlaps>>
    /\ UNCHANGED <<driverVars, loadVars, normal_assets, writer, hq_asset_files,
                   process_queue, hq_refs, hq_asset, out_assets, carveVars,
                   writeVars, input,
                   geomVars>>

\* a worker that appends its staged lists without taking the write lock
HqWrite_no_lock(w) ==
    /\ proc = "running"
    /\ hpc[w] = "want_write"
    /\ normal_assets' = [normal_assets EXCEPT ![hn[w]] =
            ExtendOverlaps(@, overlaps[w])]
    /\ hpc' = [hpc EXCEPT ![w] = "writing"]
    /\ UNCHANGED <<driverVars, loadVars, readers, writer, hq_asset_files,
                   process_queue, hq_refs, hq_asset, hn, overlaps, out_assets,
                   carveVars, writeVars, input,
                   geomVars>>

\* asset_clone.write(), then the staging lists are appended
HqWrite(w) ==
    /\ proc = "running"
    /\ hpc[w] = "want_write"
    /\ readers[hn[w]] = {}
    /\ writer[hn[w]] = 0
    /\ writer' = [writer EXCEPT ![hn[w]] = w]
    /\ normal_assets' = [normal_assets EXCEPT ![hn[w]] =
            ExtendOverlaps(@, overlaps[w])]
    /\ hpc' = [hpc EXCEPT ![w] = "writing"]
    /\ UNCHANGED <<driverVars, loadVars, readers, hq_asset_files,
                   process_queue, hq_refs, hq_asset, hn, overlaps, out_assets,
                   carveVars, writeVars, input,
                   geomVars>>

\* the write guard is dropped at the end of the iteration
HqUnlock(w) ==
    /\ proc = "running"
    /\ hpc[w] = "writing"
    /\ writer' = [writer EXCEPT ![hn[w]] = 0]
    /\ hn' = [hn EXCEPT ![w] = @ + 1]
    /\ overlaps' = [overlaps EXCEPT ![w] = <<>>]
    /\ hpc' = [hpc EXCEPT ![w] = "scan"]
    /\ UNCHANGED <<driverVars, loadVars, normal_assets, readers,
                   hq_asset_files, process_queue, hq_refs, hq_asset,
                   out_assets, carveVars, writeVars, input,
                   geomVars>>

\* after the last pool entry: write_hq_asset_ref_lock.push(from_model(hq, 1))
HqPushRef(w) ==
    /\ proc = "running"
    /\ hpc[w] = "scan"
    /\ hn[w] > Len(normal_assets)
    /\ hq_refs' = Append(hq_refs, ModelReference_from_model(hq_asset[w], 1))
    /\ hpc' = [hpc EXCEPT ![w] = "loop"]
    /\ hq_asset' = [hq_asset EXCEPT ![w] = NoModel]
    /\ hn' = [hn EXCEPT ![w] = 1]
    /\ UNCHANGED <<driverVars, loadVars, poolVars, hq_asset_files,
                   process_queue, overlaps, out_assets,
                   carveVars, writeVars, input,
                   geomVars>>

\* ------------------------------------------------------------------------
\* Stage 2: WorldAssets::process_overlaps (src/world.rs:207-235)
\* ------------------------------------------------------------------------

\* the queue is cloned from hq_asset_files and the workers are spawned
DrvSpawnHq ==
    /\ proc = "running"
    /\ dpc = "process_overlaps"
    /\ process_queue' = hq_asset_files
    /\ hq_refs' = <<>>
    /\ hpc' = [w \in Workers |-> "loop"]
    /\ dpc' = "process_overlaps_join"
    /\ di' = 1
    /\ UNCHANGED <<proc, scene, loadVars, poolVars, hq_asset_files, hq_asset,
                   hn, overlaps, out_assets, carveVars, writeVars, input,
                   geomVars>>

\* t.join().expect(..): waits for worker di; a panicked worker panics main
DrvJoinHq ==
    /\ dpc = "process_overlaps_join"
    /\ proc = "running"
    /\ di <= NumWorkers
    /\ Joinable(hpc[di])
    /\ IF hpc[di] = "panicked"
       THEN proc' = "aborted" /\ di' = di
       ELSE proc' = proc /\ di' = di + 1
    /\ UNCHANGED <<dpc, scene, loadVars, poolVars, hqVars, out_assets,
                   carveVars, writeVars, input,
                   geomVars>>

\* the references are drained into out_assets and the method returns
DrvProcessOverlapsReturn ==
    /\ proc = "running"
    /\ dpc = "process_overlaps_join"
    /\ di > NumWorkers
    /\ out_assets' = out_assets \o [i \in 1..Len(hq_refs) |-> AssetRef(hq_refs[i])]
    /\ hq_refs' = <<>>
    /\ dpc' = StageAfter("process_overlaps")
    /\ UNCHANGED <<proc, di, scene, loadVars, poolVars, hq_asset_files,
                   process_queue, hpc, hq_asset, hn, overlaps, carveVars,
                   writeVars, input,
                   geomVars>>

\* ------------------------------------------------------------------------
\* Stage 3: mark_and_delete_vertices_worker (src/world.rs:86-129)
\* ------------------------------------------------------------------------

\* assets_lock.pop() yields Some(model)
CarvePop(w) ==
    /\ proc = "running"
    /\ cw_pc[w] = "loop"
    /\ assets # <<>>
    /\ cw_model' = [cw_model EXCEPT ![w] = assets[Len(assets)]]
    /\ assets' = SubSeq(assets, 1, Len(assets) - 1)
    /\ cw_pc' = [cw_pc EXCEPT ![w] = "popped"]
    /\ UNCHANGED <<driverVars, loadVars, poolVars, hqVars, out_assets, results,
                   writeVars, input,
                   geomVars>>

\* assets_lock.pop() yields None: the worker returns
CarveReturn(w) ==
    /\ proc = "running"
    /\ cw_pc[w] = "loop"
    /\ assets = <<>>
    /\ cw_pc' = [cw_pc EXCEPT ![w] = "returned"]
    /\ UNCHANGED <<driverVars, loadVars, poolVars, hqVars, out_assets, assets,
                   results, cw_model, writeVars, input,
                   geomVars>>

\* model.mark_vertices_to_delete()
CarveMark(w) ==
    /\ proc = "running"
    /\ cw_pc[w] = "popped"
    /\ cw_model' = [cw_model EXCEPT ![w] = Model_mark_vertices_to_delete(@)]
    /\ cw_pc' = [cw_pc EXCEPT ![w] = "marked"]
    /\ UNCHANGED <<driverVars, loadVars, poolVars, hqVars, out_assets, assets,
                   results, writeVars, input,
                   geomVars>>

\* if model.to_be_deleted() { continue; }: the Model is dropped
CarveDrop(w) ==
    /\ proc = "running"
    /\ cw_pc[w] = "marked"
    /\ Model_to_be_deleted(cw_model[w])
    /\ cw_pc' = [cw_pc EXCEPT ![w] = "loop"]
    /\ cw_model' = [cw_model EXCEPT ![w] = NoModel]
    /\ UNCHANGED <<driverVars, loadVars, poolVars, hqVars, out_assets, assets,
                   results, writeVars, input,
                   geomVars>>

\* if !model.modified() { push AssetRef(from_model(model, 2)); continue; }
CarvePassthrough(w) ==
    /\ proc = "running"
    /\ cw_pc[w] = "marked"
    /\ ~Model_to_be_deleted(cw_model[w])
    /\ ~Model_modified(cw_model[w])
    /\ results' = Append(results,
                    AssetRef(ModelReference_from_model(cw_model[w], 2)))
    /\ cw_pc' = [cw_pc EXCEPT ![w] = "loop"]
    /\ cw_model' = [cw_model EXCEPT ![w] = NoModel]
    /\ UNCHANGED <<driverVars, loadVars, poolVars, hqVars, out_assets, assets,
                   writeVars, input,
                   geomVars>>

\* model.do_delete_vertices(); push Asset(model): the Model moves into results
CarveDelete(w) ==
    /\ proc = "running"
    /\ cw_pc[w] = "marked"
    /\ ~Model_to_be_deleted(cw_model[w])
    /\ Model_modified(cw_model[w])
    /\ results' = Append(results, Asset(Model_do_delete_vertices(cw_model[w])))
    /\ cw_model' = [cw_model EXCEPT ![w] = NoModel]
    /\ cw_pc' = [cw_pc EXCEPT ![w] = "loop"]
    /\ UNCHANGED <<driverVars, loadVars, poolVars, hqVars, out_assets, assets,
                   writeVars, input,
                   geomVars>>

\* ------------------------------------------------------------------------
\* Stage 3: WorldAssets::mark_and_delete_vertices (src/world.rs:237-272)
\* ------------------------------------------------------------------------

\* Arc::try_unwrap of the pool and of each entry panics the main thread
\* while another thread still holds a clone; otherwise the Models move into
\* the task queue and the workers are spawned
DrvSpawnCarve ==
    /\ proc = "running"
    /\ dpc = "mark_and_delete_vertices"
    /\ IF \E w \in Workers : hpc[w] \notin {"idle", "returned", "panicked"}
       THEN /\ proc' = "aborted"
            /\ UNCHANGED <<dpc, di, poolVars, carveVars>>
       ELSE /\ assets' = normal_assets
            /\ normal_assets' = <<>>
            /\ readers' = <<>>
            /\ writer' = <<>>
            /\ results' = <<>>
            /\ cw_pc' = [w \in Workers |-> "loop"]
            /\ dpc' = "mark_and_delete_vertices_join"
            /\ di' = 1
            /\ UNCHANGED <<proc, cw_model>>
    /\ UNCHANGED <<scene, loadVars, hqVars, out_assets, writeVars, input,
                   geomVars>>

\* h.join().expect(..)
DrvJoinCarve ==
    /\ proc = "running"
    /\ dpc = "mark_and_delete_vertices_join"
    /\ di <= NumWorkers
    /\ Joinable(cw_pc[di])
    /\ IF cw_pc[di] = "panicked"
       THEN proc' = "aborted" /\ di' = di
       ELSE proc' = proc /\ di' = di + 1
    /\ UNCHANGED <<dpc, scene, loadVars, poolVars, hqVars, out_assets,
                   carveVars, writeVars, input,
                   geomVars>>

\* Arc::try_unwrap(results).unwrap(); self.out_assets.append(..)
DrvCarveReturn ==
    /\ proc = "running"
    /\ dpc = "mark_and_delete_vertices_join"
    /\ di > NumWorkers
    /\ IF \E w \in Workers : cw_pc[w] \notin {"idle", "returned", "panicked"}
       THEN /\ proc' = "aborted"
            /\ UNCHANGED <<dpc, out_assets, results>>
       ELSE /\ out_assets' = out_assets \o results
            /\ results' = <<>>
            /\ dpc' = StageAfter("mark_and_delete_vertices")
            /\ UNCHANGED proc
    /\ UNCHANGED <<di, scene, loadVars, poolVars, hqVars, assets, cw_pc,
                   cw_model, writeVars, input,
                   geomVars>>

\* ------------------------------------------------------------------------
\* Stage 4: write_to_folder_worker (src/world.rs:131-143)
\* ------------------------------------------------------------------------

\* what OutAsset::write_to_folder leaves in the destination folder
Written(a) ==
    IF a.kind = "Asset"
    THEN <<"Asset", a.model.source_file>>
    ELSE <<"AssetRef", a.ref.source_file>>

\* lock.pop() yields Some(out_asset)
WritePop(w) ==
    /\ proc = "running"
    /\ wpc[w] = "loop"
    /\ tasks # <<>>
    /\ out_asset' = [out_asset EXCEPT ![w] = tasks[Len(tasks)]]
    /\ tasks' = SubSeq(tasks, 1, Len(tasks) - 1)
    /\ wpc' = [wpc EXCEPT ![w] = "write"]
    /\ UNCHANGED <<driverVars, loadVars, poolVars, hqVars, out_assets,
                   carveVars, dest, texVars,
                   input, geomVars>>

\* lock.pop() yields None: the worker returns
WriteReturn(w) ==
    /\ proc = "running"
    /\ wpc[w] = "loop"
    /\ tasks = <<>>
    /\ wpc' = [wpc EXCEPT ![w] = "returned"]
    /\ UNCHANGED <<driverVars, loadVars, poolVars, hqVars, out_assets,
                   carveVars, tasks, out_asset, dest, texVars,
                   input, geomVars>>

\* out_asset.write_to_folder(dest_folder) succeeds
WriteOk(w) ==
    /\ proc = "running"
    /\ wpc[w] = "write"
    /\ dest' = dest \cup {Written(out_asset[w])}
    /\ wpc' = [wpc EXCEPT ![w] = "loop"]
    /\ out_asset' = [out_asset EXCEPT ![w] = NoAsset]
    /\ UNCHANGED <<driverVars, loadVars, poolVars, hqVars, out_assets,
                   carveVars, tasks, texVars,
                   input, geomVars>>

\* out_asset.write_to_folder(dest_folder) panics (File::create(..).expect,
\* a missing source texture)
WritePanic(w) ==
    /\ proc = "running"
    /\ wpc[w] = "write"
    /\ wpc' = [wpc EXCEPT ![w] = "panicked"]
    /\ out_asset' = [out_asset EXCEPT ![w] = NoAsset]
    /\ UNCHANGED <<driverVars, loadVars, poolVars, hqVars, out_assets,
                   carveVars, tasks, dest, texVars,
                   input, geomVars>>

\* ------------------------------------------------------------------------
\* Stage 4: WorldAssets::write_to_folder (src/world.rs:274-292)
\* ------------------------------------------------------------------------

\* std::mem::take(&mut self.out_assets) becomes the queue; workers spawned
DrvSpawnWrite ==
    /\ proc = "running"
    /\ dpc = "write_to_folder"
    /\ tasks' = out_assets
    /\ out_assets' = <<>>
    /\ wpc' = [w \in Workers |-> "loop"]
    /\ dpc' = "write_to_folder_join"
    /\ di' = 1
    /\ UNCHANGED <<proc, scene, loadVars, poolVars, hqVars, carveVars,
                   out_asset, dest, texVars,
                   input, geomVars>>

\* h.join().expect(..)
DrvJoinWrite ==
    /\ proc = "running"
    /\ dpc = "write_to_folder_join"
    /\ di <= NumWorkers
    /\ Joinable(wpc[di])
    /\ IF wpc[di] = "panicked"
       THEN proc' = "aborted" /\ di' = di
       ELSE proc' = proc /\ di' = di + 1
    /\ UNCHANGED <<dpc, scene, loadVars, poolVars, hqVars, out_assets,
                   carveVars, writeVars, input,
                   geomVars>>

\* the method returns
DrvWriteReturn ==
    /\ proc = "running"
    /\ dpc = "write_to_folder_join"
    /\ di > NumWorkers
    /\ dpc' = StageAfter("write_to_folder")
    /\ UNCHANGED <<proc, di, scene, loadVars, poolVars, hqVars, out_assets,
                   carveVars, writeVars, input,
                   geomVars>>

\* main returns: the process exits
DrvExit ==
    /\ proc = "running"
    /\ dpc = "exit"
    /\ proc' = "exited"
    /\ UNCHANGED <<dpc, di, scene, loadVars, poolVars, hqVars, out_assets,
                   carveVars, writeVars, input,
                   geomVars>>

\* ------------------------------------------------------------------------
\* The whole program
\* ------------------------------------------------------------------------
NoThreads == [w \in Workers |-> "idle"]

Init ==
    /\ proc = "running"
    /\ dpc = StageOrder[1]
    /\ di = 1
    /\ scene \in Scenes
    /\ tx_task = <<>>
    /\ tx_resp = <<>>
    /\ lpc = NoThreads
    /\ ltask = [w \in Workers |-> 0]
    /\ num_running = 0
    /\ normal_assets = <<>>
    /\ readers = <<>>
    /\ writer = <<>>
    /\ hq_asset_files = <<>>
    /\ process_queue = <<>>
    /\ hq_refs = <<>>
    /\ hpc = NoThreads
    /\ hq_asset = [w \in Workers |-> NoModel]
    /\ hn = [w \in Workers |-> 1]
    /\ overlaps = [w \in Workers |-> <<>>]
    /\ out_assets = <<>>
    /\ assets = <<>>
    /\ results = <<>>
    /\ cw_pc = NoThreads
    /\ cw_model = [w \in Workers |-> NoModel]
    /\ tasks = <<>>
    /\ wpc = NoThreads
    /\ out_asset = [w \in Workers |-> NoAsset]
    /\ dest = {}
    /\ textures = NoTextures
    /\ wtex = [w \in Workers |-> <<>>]
    /\ input = NoModel
    /\ NoGeometry

Driver ==
    \/ DrvSpawnLoaders
    \/ DrvSendTask
    \/ DrvSendTerminate
    \/ DrvCollect
    \/ DrvNewReturn
    \/ DrvSpawnHq
    \/ DrvJoinHq
    \/ DrvProcessOverlapsReturn
    \/ DrvSpawnCarve
    \/ DrvJoinCarve
    \/ DrvCarveReturn
    \/ DrvSpawnWrite
    \/ DrvJoinWrite
    \/ DrvWriteReturn
    \/ DrvExit

Loader(w) ==
    \/ LoaderRecv(w)
    \/ LoaderLoadOk(w)
    \/ LoaderLoadPanic(w)
    \/ LoaderTerminate(w)

HqWorker(w) ==
    \/ HqPop(w)
    \/ HqReturn(w)
    \/ HqLoadPanic(w)
    \/ HqRead(w)
    \/ HqRelease(w)
    \/ HqWrite(w)
    \/ HqUnlock(w)
    \/ HqPushRef(w)

CarveWorker(w) ==
    \/ CarvePop(w)
    \/ CarveReturn(w)
    \/ CarveMark(w)
    \/ CarveDrop(w)
    \/ CarvePassthrough(w)
    \/ CarveDelete(w)

WriteWorker(w) ==
    \/ WritePop(w)
    \/ WriteReturn(w)
    \/ WriteOk(w)
    \/ WritePanic(w)

Next ==
    \/ Driver
    \/ \E w \in Workers : Loader(w)
    \/ \E w \in Workers : HqWorker(w)
    \/ \E w \in Workers : CarveWorker(w)
    \/ \E w \in Workers : WriteWorker(w)

Spec == Init /\ [][Next]_vars

\* Every thread that can take a step eventually takes one (OS scheduling).
Fairness ==
    /\ WF_vars(Driver)
    /\ \A w \in Workers :
        /\ WF_vars(Loader(w))
        /\ WF_vars(HqWorker(w))
        /\ WF_vars(CarveWorker(w))
        /\ WF_vars(WriteWorker(w))

SpecFair == Spec /\ Fairness

\* ------------------------------------------------------------------------
\* One mark_and_delete_vertices_worker on a queue holding any one Model
\* ------------------------------------------------------------------------
cpc == cw_pc[1]
model == cw_model[1]

\* the rest of the program while the carve stage runs
CarveStageOnly ==
    /\ proc = "running"
    /\ dpc = "mark_and_delete_vertices_join"
    /\ di = 1
    /\ scene = 0
    /\ tx_task = <<>>
    /\ tx_resp = <<>>
    /\ lpc = NoThreads
    /\ ltask = [w \in Workers |-> 0]
    /\ num_running = 0
    /\ normal_assets = <<>>
    /\ readers = <<>>
    /\ writer = <<>>
    /\ hq_asset_files = <<>>
    /\ process_queue = <<>>
    /\ hq_refs = <<>>
    /\ hpc = NoThreads
    /\ hq_asset = [w \in Workers |-> NoModel]
    /\ hn = [w \in Workers |-> 1]
    /\ overlaps = [w \in Workers |-> <<>>]
    /\ out_assets = <<>>
    /\ tasks = <<>>
    /\ wpc = NoThreads
    /\ out_asset = [w \in Workers |-> NoAsset]
    /\ dest = {}
    /\ textures = NoTextures
    /\ wtex = [w \in Workers |-> <<>>]
    /\ NoGeometry

InitCarve ==
    /\ CarveStageOnly
    /\ \E meshes \in MeshLists :
        /\ assets = <<ModelOf(meshes)>>
        /\ input = ModelOf(meshes)
    /\ cw_model = [w \in Workers |-> NoModel]
    /\ cw_pc = [w \in Workers |-> IF w = 1 THEN "loop" ELSE "idle"]
    /\ results = <<>>

NextCarve == CarveWorker(1)

SpecCarve == InitCarve /\ [][NextCarve]_vars

\* ------------------------------------------------------------------------
\* MeshContainer::do_delete_vertices on its own, for any indices_to_delete
\* ------------------------------------------------------------------------
InitDelete ==
    /\ CarveStageOnly
    /\ \E V \in 0..MaxV :
       \E ind \in IndexLists(V), uvs \in {None, Some(UvsOf(V))},
          itd \in SUBSET Verts(V) :
        LET m == [LoadedMesh(V, ind, uvs, Ascending(itd))
                    EXCEPT !.indices_to_delete = itd]
        IN  /\ cw_model = [w \in Workers |->
                            IF w = 1 THEN ModelOf(<<m>>) ELSE NoModel]
            /\ input = ModelOf(<<m>>)
    /\ assets = <<>>
    /\ cw_pc = [w \in Workers |-> IF w = 1 THEN "mesh" ELSE "idle"]
    /\ results = <<>>

MeshDelete ==
    /\ cw_pc[1] = "mesh"
    /\ cw_model' = [cw_model EXCEPT ![1] =
            [@ EXCEPT !.meshes = <<MeshContainer_do_delete_vertices(@[1])>>]]
    /\ cw_pc' = [cw_pc EXCEPT ![1] = "mesh_deleted"]
    /\ UNCHANGED <<driverVars, loadVars, poolVars, hqVars, out_assets, assets,
                   results, writeVars, input,
                   geomVars>>

NextDelete == MeshDelete

SpecDelete == InitDelete /\ [][NextDelete]_vars

\* ------------------------------------------------------------------------
\* The write stage with its texture copies (src/io.rs:93-125, 136-174,
\* 277-328): several write_to_folder_workers on one destination folder
\* ------------------------------------------------------------------------
NumTextures == 2   \* distinct texture file names the materials refer to
NumTasks == 2      \* OutAssets in the write queue

TextureFiles == 1..NumTextures

\* tobj::Material, its texture fields (the other four are absent)
Material(diffuse, normal) ==
    [diffuse_texture |-> diffuse, normal_texture |-> normal]

Materials ==
    {Material(d, n) :
        d \in {None} \cup {Some(t) : t \in TextureFiles},
        n \in {None, Some(1)}}

Flatten(opts) ==
    LET F[i \in 0..Len(opts)] ==
            IF i = 0 THEN <<>>
            ELSE IF opts[i].some THEN Append(F[i - 1], opts[i].val)
            ELSE F[i - 1]
    IN  F[Len(opts)]

\* the copy_texture calls of one write_to_folder, in order: write_mtllib
\* copies map_Kd of every material of a Model; a ModelReference copies every
\* texture field of every material
TextureCalls(a) ==
    IF a.kind = "Asset"
    THEN Flatten([i \in 1..Len(a.model.meshes) |->
                    a.model.meshes[i].material.diffuse_texture])
    ELSE Flatten([i \in 1..(2 * Len(a.ref.materials)) |->
                    IF i % 2 = 1
                    THEN a.ref.materials[(i + 1) \div 2].diffuse_texture
                    ELSE a.ref.materials[i \div 2].normal_texture])

\* an OutAsset of the write queue: source file i with one material
OutAssetsOf(i) ==
    {Asset([source_file |-> NQPath(i), meshes |-> <<[material |-> m]>>]) :
        m \in Materials}
    \cup {AssetRef([source_file |-> HQPath(i), materials |-> <<m>>,
                    texture_downscale_factor |-> 1]) : m \in Materials}

RECURSIVE TaskLists(_)
TaskLists(n) ==
    IF n = 0 THEN {<<>>}
    ELSE {Append(q, a) : q \in TaskLists(n - 1), a \in OutAssetsOf(n)}

\* the rest of the program while the write stage runs
WriteStageOnly ==
    /\ proc = "running"
    /\ dpc = "write_to_folder_join"
    /\ di = 1
    /\ scene = 0
    /\ tx_task = <<>>
    /\ tx_resp = <<>>
    /\ lpc = [w \in Workers |-> "returned"]
    /\ ltask = [w \in Workers |-> 0]
    /\ num_running = 0
    /\ normal_assets = <<>>
    /\ readers = <<>>
    /\ writer = <<>>
    /\ hq_asset_files = <<>>
    /\ process_queue = <<>>
    /\ hq_refs = <<>>
    /\ hpc = [w \in Workers |-> "returned"]
    /\ hq_asset = [w \in Workers |-> NoModel]
    /\ hn = [w \in Workers |-> 1]
    /\ overlaps = [w \in Workers |-> <<>>]
    /\ out_assets = <<>>
    /\ assets = <<>>
    /\ results = <<>>
    /\ cw_pc = [w \in Workers |-> "returned"]
    /\ cw_model = [w \in Workers |-> NoModel]
    /\ input = NoModel

\* WorldAssets::write_to_folder has spawned the workers; the destination
\* folder may already hold some of the textures
InitWrite ==
    /\ WriteStageOnly
    /\ NoGeometry
    /\ tasks \in TaskLists(NumTasks)
    /\ wpc = [w \in Workers |-> "loop"]
    /\ out_asset = [w \in Workers |-> NoAsset]
    /\ dest = {}
    /\ \E present \in SUBSET TextureFiles :
        textures = [t \in TextureFiles |->
                        [exists |-> t \in present, writes |-> 0]]
    /\ wtex = [w \in Workers |-> <<>>]

\* the mesh and material files are written, the texture calls follow
WriteFiles(w) ==
    /\ proc = "running"
    /\ wpc[w] = "write"
    /\ dest' = dest \cup {Written(out_asset[w])}
    /\ wtex' = [wtex EXCEPT ![w] = TextureCalls(out_asset[w])]
    /\ wpc' = [wpc EXCEPT ![w] = "copy_texture"]
    /\ UNCHANGED <<driverVars, loadVars, poolVars, hqVars, out_assets,
                   carveVars, tasks, out_asset, textures, input,
                   geomVars>>

\* copy_texture: if texture_dst.exists() { return; }
TextureExists(w) ==
    /\ proc = "running"
    /\ wpc[w] = "copy_texture"
    /\ wtex[w] # <<>>
    /\ IF textures[Head(wtex[w])].exists
       THEN /\ wtex' = [wtex EXCEPT ![w] = Tail(@)]
            /\ UNCHANGED wpc
       ELSE /\ wpc' = [wpc EXCEPT ![w] = "copy"]
            /\ UNCHANGED wtex
    /\ UNCHANGED <<driverVars, loadVars, poolVars, hqVars, out_assets,
                   carveVars, tasks, out_asset, dest, textures, input,
                   geomVars>>

\* copy_texture: std::fs::copy or resized.save writes texture_dst
TextureCopy(w) ==
    /\ proc = "running"
    /\ wpc[w] = "copy"
    /\ textures' = [textures EXCEPT ![Head(wtex[w])] =
                        [exists |-> TRUE, writes |-> @.writes + 1]]
    /\ wtex' = [wtex EXCEPT ![w] = Tail(@)]
    /\ wpc' = [wpc EXCEPT ![w] = "copy_texture"]
    /\ UNCHANGED <<driverVars, loadVars, poolVars, hqVars, out_assets,
                   carveVars, tasks, out_asset, dest, input,
                   geomVars>>

\* the last texture is done: write_to_folder returns to the worker's loop
WriteDone(w) ==
    /\ proc = "running"
    /\ wpc[w] = "copy_texture"
    /\ wtex[w] = <<>>
    /\ out_asset' = [out_asset EXCEPT ![w] = NoAsset]
    /\ wpc' = [wpc EXCEPT ![w] = "loop"]
    /\ UNCHANGED <<driverVars, loadVars, poolVars, hqVars, out_assets,
                   carveVars, tasks, dest, texVars, input,
                   geomVars>>

TextureWriter(w) ==
    \/ WritePop(w)
    \/ WriteReturn(w)
    \/ WritePanic(w)
    \/ WriteFiles(w)
    \/ TextureExists(w)
    \/ TextureCopy(w)
    \/ WriteDone(w)

NextWrite == \E w \in Workers : TextureWriter(w)

SpecWrite == InitWrite /\ [][NextWrite]_vars

\* ------------------------------------------------------------------------
\* Overlap geometry (src/model.rs:73-138, 171-246).  Coordinates are
\* integers; the f64 arithmetic of the code is carried out exactly, with
\* lengths compared through their squares.
\* ------------------------------------------------------------------------
Sub3(a, b) == <<a[1] - b[1], a[2] - b[2], a[3] - b[3]>>
Dot(a, b) == a[1] * b[1] + a[2] * b[2] + a[3] * b[3]
Cross(a, b) ==
    <<a[2] * b[3] - a[3] * b[2],
      a[3] * b[1] - a[1] * b[3],
      a[1] * b[2] - a[2] * b[1]>>

MinOf(S) == CHOOSE x \in S : \A y \in S : x <= y
MaxOf(S) == CHOOSE x \in S : \A y \in S : x >= y
Larger(a, b) == IF a >= b THEN a ELSE b
Smaller(a, b) == IF a <= b THEN a ELSE b
Abs(x) == IF x >= 0 THEN x ELSE -x

\* TriMesh::compute_aabb
compute_aabb(positions) ==
    [min |-> [a \in 1..3 |-> MinOf({positions[i][a] : i \in 1..Len(positions)})],
     max |-> [a \in 1..3 |-> MaxOf({positions[i][a] : i \in 1..Len(positions)})]]

\* AxisAlignedBoundingBox::intersection
Aabb_intersection(a, b) ==
    LET lo == [k \in 1..3 |-> Larger(a.min[k], b.min[k])]
        hi == [k \in 1..3 |-> Smaller(a.max[k], b.max[k])]
    IN  IF \E k \in 1..3 : lo[k] > hi[k]
        THEN None
        ELSE Some([min |-> lo, max |-> hi])

\* AxisAlignedBoundingBox::is_inside
Aabb_is_inside(box, p) ==
    \A k \in 1..3 : box.min[k] <= p[k] /\ p[k] <= box.max[k]

\* p0.distance(p1), for the edges of whole length that the NQ meshes here have
distance(p, q) ==
    LET d2 == Dot(Sub3(p, q), Sub3(p, q))
    IN  CHOOSE k \in 0..d2 : k * k = d2

\* mean_edge_len = len_sum / len_cnt, kept as a fraction
mean_edge_len(m) ==
    LET E[t \in 0..NumTris(m.indices)] ==
            IF t = 0 THEN 0
            ELSE LET tri == Tri(m.indices, t)
                     p0 == m.positions[tri[1] + 1]
                     p1 == m.positions[tri[2] + 1]
                     p2 == m.positions[tri[3] + 1]
                 IN  E[t - 1] + distance(p0, p1) + distance(p1, p2)
                        + distance(p2, p0)
    IN  [num |-> E[NumTris(m.indices)], den |-> 3 * NumTris(m.indices)]

Times4(q) == [num |-> 4 * q.num, den |-> q.den]
Whole(n) == [num |-> n, den |-> 1]

\* the slab test of an inverted comparison
SlabReject_inverted(n, d, threshold) ==
    Dot(n, d) * Dot(n, d) * threshold.den * threshold.den
        < threshold.num * threshold.num * Dot(n, n)

\* the slab test with an exclusive bound
SlabReject_exclusive(n, d, threshold) ==
    Dot(n, d) * Dot(n, d) * threshold.den * threshold.den
        >= threshold.num * threshold.num * Dot(n, n)

\* dist = normal.dot(vertex - p0).abs(); if dist > threshold { continue; }
\* with n the normal before normalize(): |n.d| / |n| > num / den
SlabReject(n, d, threshold) ==
    Dot(n, d) * Dot(n, d) * threshold.den * threshold.den
        > threshold.num * threshold.num * Dot(n, n)

\* p += (p - center) * 0.15, times 20: 20 p + (3 p - (p0 + p1 + p2))
Expand20(p, p0, p1, p2) ==
    [k \in 1..3 |-> 23 * p[k] - (p0[k] + p1[k] + p2[k])]

\* if e.cross(normal).dot(vertex - p) > EPSILON { continue; } on the expanded
\* corners a, b (times 20).  The value is a whole number here, so it exceeds
\* EPSILON exactly when it is positive.
EdgeReject(a, b, n, vertex) ==
    Dot(Cross(Sub3(b, a), n),
        Sub3([k \in 1..3 |-> 20 * vertex[k]], a)) > 0

\* the three edge tests of one triangle
OutsideFootprint(vertex, p0, p1, p2) ==
    LET n == Cross(Sub3(p1, p0), Sub3(p2, p0))
        q0 == Expand20(p0, p0, p1, p2)
        q1 == Expand20(p1, p0, p1, p2)
        q2 == Expand20(p2, p0, p1, p2)
    IN  \/ EdgeReject(q0, q1, n, vertex)
        \/ EdgeReject(q1, q2, n, vertex)
        \/ EdgeReject(q2, q0, n, vertex)

\* one iteration of the loop over the triangles reaches `return true`
TriangleCovers(vertex, p0, p1, p2, threshold) ==
    LET n == Cross(Sub3(p1, p0), Sub3(p2, p0))
    IN  /\ ~SlabReject(n, Sub3(vertex, p0), threshold)
        /\ ~OutsideFootprint(vertex, p0, p1, p2)

\* vertex_overlapping(vertex, mesh_container, threshold)
vertex_overlapping(vertex, m, threshold) ==
    \E t \in 1..NumTris(m.indices) :
        LET tri == Tri(m.indices, t)
        IN  TriangleCovers(vertex, m.positions[tri[1] + 1],
                m.positions[tri[2] + 1], m.positions[tri[3] + 1], threshold)

\* MeshContainer::calc_overlapping_vertice_idxs(&self, other)
MeshContainer_calc_overlapping_vertice_idxs(self, other) ==
    LET threshold == Times4(mean_edge_len(self))
        intersection ==
            Aabb_intersection(compute_aabb(self.positions),
                              compute_aabb(other.positions))
        Push[i \in 0..Len(self.positions)] ==
            IF i = 0 THEN <<>>
            ELSE IF /\ Aabb_is_inside(intersection.val, self.positions[i])
                    /\ vertex_overlapping(self.positions[i], other, threshold)
                 THEN Append(Push[i - 1], i - 1)
                 ELSE Push[i - 1]
    IN  IF intersection.some THEN Push[Len(self.positions)] ELSE <<>>

\* ------------------------------------------------------------------------
\* Geometric inputs: one HQ triangle between corners of a cube, NQ triangles
\* with edges 3, 4, 5, query points on the lattice around the cube
\* ------------------------------------------------------------------------
CubeEdge == 4     \* edge length of the cube the HQ corners lie on
Margin == 1       \* how far query points and NQ offsets reach past the cube
MaxThreshold == 3 \* largest threshold of a single point query

CubeCorners == {<<x, y, z>> : x \in {0, CubeEdge}, y \in {0, CubeEdge},
                              z \in {0, CubeEdge}}

Before(p, q) ==
    \/ p[1] < q[1]
    \/ p[1] = q[1] /\ p[2] < q[2]
    \/ p[1] = q[1] /\ p[2] = q[2] /\ p[3] < q[3]

GeoMesh(p0, p1, p2) ==
    MeshContainer_new(<<p0, p1, p2>>, <<0, 1, 2>>, None, TRUE, "mtl")

\* HQ meshes: one triangle, in both windings
HQMeshes ==
    {GeoMesh(c[1], c[2], c[3]) :
        c \in {c \in CubeCorners \X CubeCorners \X CubeCorners :
                  Before(c[1], c[2]) /\ c[3] \notin {c[1], c[2]}}}

\* NQ meshes: a right triangle with legs 3 and 4 along two axes
NQOffsets == {<<x, y, z>> : x \in {-Margin, 0}, y \in {-Margin, 0},
                            z \in -Margin..Margin}

NQMeshes ==
    {GeoMesh(o, <<o[1] + 3, o[2], o[3]>>, <<o[1], o[2] + 4, o[3]>>) :
        o \in NQOffsets}
    \cup {GeoMesh(o, <<o[1], o[2] + 3, o[3]>>, <<o[1], o[2], o[3] + 4>>) :
        o \in NQOffsets}

QueryPoints ==
    {<<x, y, z>> : x \in -Margin..(CubeEdge + Margin),
                   y \in -Margin..1,
                   z \in -MaxThreshold..MaxThreshold}

\* ------------------------------------------------------------------------
\* calc_overlapping_vertice_idxs and vertex_overlapping on their own
\* ------------------------------------------------------------------------
GeometryOnly ==
    /\ WriteStageOnly
    /\ tasks = <<>>
    /\ wpc = [w \in Workers |-> "returned"]
    /\ out_asset = [w \in Workers |-> NoAsset]
    /\ dest = {}
    /\ textures = NoTextures
    /\ wtex = [w \in Workers |-> <<>>]

InitCover ==
    /\ GeometryOnly
    /\ gpc = "call"
    /\ gout = <<>>
    /\ \/ \E self \in NQMeshes, other \in HQMeshes :
            gin = [op |-> "calc_overlapping_vertice_idxs",
                   self |-> self, other |-> other]
       \/ \E v \in QueryPoints, other \in HQMeshes, t \in 0..MaxThreshold :
            gin = [op |-> "vertex_overlapping",
                   vertex |-> v, other |-> other, threshold |-> t]

CalcOverlap ==
    /\ gpc = "call"
    /\ gin.op = "calc_overlapping_vertice_idxs"
    /\ gout' = MeshContainer_calc_overlapping_vertice_idxs(gin.self, gin.other)
    /\ gpc' = "returned"
    /\ UNCHANGED <<driverVars, loadVars, poolVars, hqVars, out_assets,
                   carveVars, writeVars, input, gin>>

PointCovered ==
    /\ gpc = "call"
    /\ gin.op = "vertex_overlapping"
    /\ gout' = vertex_overlapping(gin.vertex, gin.other, Whole(gin.threshold))
    /\ gpc' = "returned"
    /\ UNCHANGED <<driverVars, loadVars, poolVars, hqVars, out_assets,
                   carveVars, writeVars, input, gin>>

NextCover == CalcOverlap \/ PointCovered

SpecCover == InitCover /\ [][NextCover]_vars

\* ------------------------------------------------------------------------
\* IndexGrid (src/grid.rs).  Coordinates are whole multiples of 1 / Units.
\* ------------------------------------------------------------------------
GRID_RESOLUTION == 10
Units == 20            \* coordinate steps per length 1
GridReach == 3         \* coordinates run over -GridReach..GridReach
MaxGridThreshold == 3  \* largest query threshold

\* `as i32` of a quotient: the fraction is cut off, toward zero
TruncDiv(a, b) == IF a >= 0 THEN a \div b ELSE -((-a) \div b)

\* (x * GRID_RESOLUTION as f32) as i32
Cell(x) == TruncDiv(x * GRID_RESOLUTION, Units)
CellOf(p) == [k \in 1..3 |-> Cell(p[k])]

\* IndexGrid::new
IndexGrid_new == [c \in {} |-> <<>>]

\* IndexGrid::extend
IndexGrid_extend(g, c, index_slice) ==
    IF c \in DOMAIN g
    THEN [g EXCEPT ![c] = @ \o index_slice]
    ELSE [x \in DOMAIN g \cup {c} |-> IF x = c THEN index_slice ELSE g[x]]

\* a triangle filed under the cell of its first corner only
InsertTriangle_first_corner(g, positions, tri) ==
    IndexGrid_extend(g, CellOf(positions[tri[1] + 1]), tri)

\* the body of the loop of populate_from_trimesh
InsertTriangle(g, positions, tri) ==
    LET p0 == CellOf(positions[tri[1] + 1])
        p1 == CellOf(positions[tri[2] + 1])
        p2 == CellOf(positions[tri[3] + 1])
        g0 == IndexGrid_extend(g, p0, tri)
        g1 == IF p1 # p0 THEN IndexGrid_extend(g0, p1, tri) ELSE g0
    IN  IF p2 # p1 /\ p2 # p0 THEN IndexGrid_extend(g1, p2, tri) ELSE g1

\* IndexGrid::populate_from_trimesh
IndexGrid_populate_from_trimesh(g, mesh) ==
    LET P[t \in 0..NumTris(mesh.indices)] ==
            IF t = 0 THEN g
            ELSE InsertTriangle(P[t - 1], mesh.positions, Tri(mesh.indices, t))
    IN  P[NumTris(mesh.indices)]

\* IndexGrid::get_cell
IndexGrid_get_cell(g, c) == IF c \in DOMAIN g THEN Some(g[c]) ELSE None

\* the number of values of the range lo..(hi + 1) of a for loop
Span(lo, hi) == IF hi >= lo THEN hi - lo + 1 ELSE 0

\* IndexGrid::get_indices
IndexGrid_get_indices(g, p, threshold) ==
    LET p_min == CellOf([k \in 1..3 |-> p[k] - threshold])
        p_max == CellOf([k \in 1..3 |-> p[k] + threshold])
        ny == Span(p_min[2], p_max[2])
        nz == Span(p_min[3], p_max[3])
        n == Span(p_min[1], p_max[1]) * ny * nz
        \* the k-th cell visited by the loops over x, then y, then z
        Visited(k) == <<p_min[1] + ((k - 1) \div (ny * nz)),
                        p_min[2] + (((k - 1) \div nz) % ny),
                        p_min[3] + ((k - 1) % nz)>>
        indices[k \in 0..n] ==
            IF k = 0 THEN <<>>
            ELSE LET ind == IndexGrid_get_cell(g, Visited(k))
                 IN  IF ind.some THEN indices[k - 1] \o ind.val
                     ELSE indices[k - 1]
    IN  indices[n]

\* meshes of two triangles that share an edge, and query points, of either sign
GridCoords == -GridReach..GridReach
GridPoints == {<<x, y, 0>> : x \in GridCoords, y \in {-1, 1}}

GridMeshes ==
    {MeshContainer_new(<<v0, v1, <<x2, 1, 0>>, <<0, -1, 0>>>>,
                       <<0, 1, 2, 1, 2, 3>>, None, TRUE, "mtl") :
        v0 \in GridPoints, v1 \in GridPoints, x2 \in GridCoords}

InitGrid ==
    /\ GeometryOnly
    /\ gpc = "call"
    /\ gout = <<>>
    /\ \E mesh \in GridMeshes, p \in GridPoints, t \in 0..MaxGridThreshold :
            gin = [op |-> "get_indices", mesh |-> mesh, p |-> p,
                   threshold |-> t]

\* MeshContainer::new with init_index_grid
GridPopulate ==
    /\ gpc = "call"
    /\ gin.op = "get_indices"
    /\ gout' = [index_grid |->
                    IndexGrid_populate_from_trimesh(IndexGrid_new, gin.mesh),
                indices |-> <<>>]
    /\ gpc' = "populated"
    /\ UNCHANGED <<driverVars, loadVars, poolVars, hqVars, out_assets,
                   carveVars, writeVars, input, gin>>

\* index_grid.get_indices(p, threshold)
GridQuery ==
    /\ gpc = "populated"
    /\ gout' = [gout EXCEPT !.indices =
                    IndexGrid_get_indices(gout.index_grid, gin.p, gin.threshold)]
    /\ gpc' = "returned"
    /\ UNCHANGED <<driverVars, loadVars, poolVars, hqVars, out_assets,
                   carveVars, writeVars, input, gin>>

NextGrid == GridPopulate \/ GridQuery

SpecGrid == InitGrid /\ [][NextGrid]_vars


\* ------------------------------------------------------------------------
\* Properties of the carve stage (SpecCarve)
\* ------------------------------------------------------------------------

\* the worker has finished the loop iteration for the queued Model
Processed == assets = <<>> /\ cpc \in {"loop", "returned"}

\* a mesh of at least one triangle, every triangle with three distinct
\* corners and every vertex the corner of a triangle
ProperMesh(m) ==
    /\ NumTris(m.indices) >= 1
    /\ \A t \in 1..NumTris(m.indices) :
        Cardinality(Range(Tri(m.indices, t))) = 3
    /\ Range(m.indices) = Verts(vertex_count(m))

EveryVertexOverlapping(m) ==
    Verts(vertex_count(m)) \subseteq Range(m.overlapping_vertice_idxs)

\* C1 (as claimed): after mark_vertices_to_delete a mesh (of proper
\* triangles, every vertex a corner) has to_be_deleted set if and only if
\* every vertex index 0..V-1 appears in overlapping_vertice_idxs.
C1_FlagIffEveryVertexOverlapping ==
    cpc = "marked" =>
        \A i \in 1..Len(model.meshes) :
            LET m == model.meshes[i]
            IN  ProperMesh(m) =>
                    (m.to_be_deleted <=> EveryVertexOverlapping(m))

\* C2: after the mark phase, every vertex in indices_to_delete has, in every
\* triangle it takes part in, all three corners recorded as overlapping; so a
\* vertex of a triangle with a non-overlapping corner is not in
\* indices_to_delete.
C2_BoundaryVerticesKept ==
    cpc = "marked" =>
        \A i \in 1..Len(model.meshes) :
            LET m == model.meshes[i]
                ov == Range(m.overlapping_vertice_idxs)
            IN  \A v \in m.indices_to_delete :
                \A t \in 1..NumTris(m.indices) :
                    LET tri == Tri(m.indices, t)
                    IN  v \in Range(tri) => Range(tri) \subseteq ov

\* C2 witness: a marked mesh in which one overlapping vertex was retained on
\* the boundary while another one is to be deleted
C2_Witness ==
    /\ cpc = "marked"
    /\ \E i \in 1..Len(model.meshes) :
        LET m == model.meshes[i]
        IN  /\ m.indices_to_delete # {}
            /\ Range(m.overlapping_vertice_idxs) \ m.indices_to_delete # {}
            /\ \E t \in 1..NumTris(m.indices) :
                Range(Tri(m.indices, t)) \cap m.indices_to_delete # {}

\* C5 (as claimed): the result of the mark phase depends only on the set of
\* recorded indices: marking the same mesh with any other overlap list that
\* holds the same set of values gives the same flag and indices_to_delete.
C5_MarkDependsOnSetOnly ==
    cpc = "marked" =>
        \A i \in 1..Len(model.meshes) :
            LET before == input.meshes[i]
                V == vertex_count(before)
            IN  \A ov2 \in OvLists(V, before.indices) :
                    (/\ ProperMesh(before)
                     /\ Range(ov2) = Range(before.overlapping_vertice_idxs)) =>
                        LET other == MeshContainer_mark_vertices_to_delete(
                                [before EXCEPT !.overlapping_vertice_idxs = ov2])
                        IN  /\ other.to_be_deleted = model.meshes[i].to_be_deleted
                            /\ other.indices_to_delete
                                    = model.meshes[i].indices_to_delete

\* the meshes of a marked Model that are not flagged, in order
Unflagged(meshes) == SelectSeq(meshes, LAMBDA m : ~m.to_be_deleted)

\* the positions a marked mesh keeps: those whose index is not to be deleted
SurvivingPositions(m) ==
    {m.positions[v + 1] : v \in Verts(vertex_count(m)) \ m.indices_to_delete}

\* C6: the carve step classifies the marked Model into exactly one outcome.
\* Every mesh flagged: nothing is pushed.  Otherwise, no mesh flagged and no
\* mesh with a recorded overlap: one AssetRef with downscale factor 2 is
\* pushed.  Otherwise one Asset is pushed, holding the unflagged meshes after
\* the delete phase (no position of a deleted vertex, normals dropped).
C6_Classification ==
    [][(cpc = "marked" /\ cpc' = "loop") =>
        LET n == Len(model.meshes)
            allFlagged == \A i \in 1..n : model.meshes[i].to_be_deleted
            noneModified ==
                \A i \in 1..n :
                    /\ ~model.meshes[i].to_be_deleted
                    /\ model.meshes[i].overlapping_vertice_idxs = <<>>
            kept == Unflagged(model.meshes)
        IN  IF allFlagged
            THEN results' = results
            ELSE /\ Len(results') = Len(results) + 1
                 /\ SubSeq(results', 1, Len(results)) = results
                 /\ LET a == results'[Len(results')]
                    IN  IF noneModified
                        THEN /\ a.kind = "AssetRef"
                             /\ a.ref.texture_downscale_factor = 2
                             /\ a.ref.source_file = model.source_file
                             /\ Len(a.ref.materials) = n
                        ELSE /\ a.kind = "Asset"
                             /\ Len(a.model.meshes) = Len(kept)
                             /\ \A j \in 1..Len(kept) :
                                 LET new == a.model.meshes[j]
                                 IN  /\ Range(new.positions)
                                            = SurvivingPositions(kept[j])
                                     /\ Len(new.positions)
                                            = Cardinality(SurvivingPositions(kept[j]))
                                     /\ ~new.normals
                                     /\ ~new.to_be_deleted
    ]_vars

\* C6 witness: a Model of two meshes, one flagged and one partly overlapped,
\* was emitted as an Asset holding the one carved mesh
C6_Witness ==
    /\ Processed
    /\ Len(input.meshes) = 2
    /\ Len(results) = 1
    /\ results[1].kind = "Asset"
    /\ Len(results[1].model.meshes) = 1
    /\ vertex_count(results[1].model.meshes[1]) < 3

\* an NQ quad (2 non-degenerate triangles over 4 vertices) with exactly one
\* corner recorded as overlapping
QuadOneCorner(mdl) ==
    /\ Len(mdl.meshes) = 1
    /\ LET m == mdl.meshes[1]
       IN  /\ vertex_count(m) = 4
           /\ NumTris(m.indices) = 2
           /\ Len(m.indices) = 6
           /\ Range(m.indices) = Verts(4)
           /\ \A t \in 1..2 : Cardinality(Range(Tri(m.indices, t))) = 3
           /\ Cardinality(Range(m.overlapping_vertice_idxs)) = 1

\* C7 (as claimed): for such a quad the mark phase leaves indices_to_delete
\* empty and the carve stage emits the Model as a Passthrough (AssetRef).
C7_QuadOneCornerPassthrough ==
    QuadOneCorner(input) =>
        /\ cpc = "marked" => model.meshes[1].indices_to_delete = {}
        /\ Processed =>
            /\ Len(results) = 1
            /\ results[1].kind = "AssetRef"

\* C7 (amended): for such a quad the mark phase leaves indices_to_delete
\* empty; the Model is never a Passthrough.  It is emitted as a Carved Asset
\* with positions and indices unchanged, except when the corner was recorded
\* exactly as many times as the mesh has indices (6), where the mesh is
\* flagged and the Model dropped.
C7_QuadOneCornerCarved ==
    QuadOneCorner(input) =>
        /\ cpc = "marked" => model.meshes[1].indices_to_delete = {}
        /\ Processed =>
            IF Len(input.meshes[1].overlapping_vertice_idxs) = 6
            THEN results = <<>>
            ELSE /\ Len(results) = 1
                 /\ results[1].kind = "Asset"
                 /\ Len(results[1].model.meshes) = 1
                 /\ results[1].model.meshes[1].positions
                        = input.meshes[1].positions
                 /\ results[1].model.meshes[1].indices
                        = input.meshes[1].indices

\* C7 witness: such a quad has been processed and emitted as an Asset
C7_Witness ==
    /\ QuadOneCorner(input)
    /\ Processed
    /\ Len(results) = 1
    /\ results[1].kind = "Asset"

\* C8 (as claimed): a Model all of whose meshes are flagged or end up without
\* vertices is dropped; so an emitted Asset of a Model whose meshes all had
\* triangles holds at least one mesh that still has a vertex.
C8_EmptiedModelDropped ==
    (/\ Processed
     /\ \A i \in 1..Len(input.meshes) : ProperMesh(input.meshes[i])
     /\ results # <<>>
     /\ results[1].kind = "Asset")
    => \E j \in 1..Len(results[1].model.meshes) :
            vertex_count(results[1].model.meshes[j]) >= 1

\* ------------------------------------------------------------------------
\* Properties of the delete phase (SpecDelete)
\* ------------------------------------------------------------------------

\* C3: after do_delete_vertices the index count is a multiple of 3, every
\* index is below the new vertex count, and no triangle names a vertex twice.
C3_IndexIntegrity ==
    cpc = "mesh_deleted" =>
        LET new == model.meshes[1]
        IN  /\ Len(new.indices) % 3 = 0
            /\ \A j \in 1..Len(new.indices) :
                new.indices[j] >= 0 /\ new.indices[j] < Len(new.positions)
            /\ \A t \in 1..NumTris(new.indices) :
                Cardinality(Range(Tri(new.indices, t))) = 3

\* C3 witness: vertex 0 was deleted, a triangle was dropped, and a triangle
\* survived with renumbered corners
C3_Witness ==
    /\ cpc = "mesh_deleted"
    /\ 0 \in input.meshes[1].indices_to_delete
    /\ NumTris(model.meshes[1].indices) >= 1
    /\ NumTris(model.meshes[1].indices) < NumTris(input.meshes[1].indices)

\* the UV list of a mesh; an absent list (None) holds no UV
UvSeq(m) == IF m.uvs.some THEN m.uvs.val ELSE <<>>

\* C4: if the mesh had UVs, then after do_delete_vertices there are as many
\* UVs as positions and the UV at each new index is the UV the vertex at that
\* new index had at its old index; also when every vertex is deleted.
C4_UvAlignment ==
    (cpc = "mesh_deleted" /\ input.meshes[1].uvs.some) =>
        LET new == model.meshes[1]
            old == input.meshes[1]
        IN  /\ Len(UvSeq(new)) = Len(new.positions)
            /\ \A k \in 1..Len(new.positions) :
                \E v \in Verts(vertex_count(old)) :
                    /\ new.positions[k] = old.positions[v + 1]
                    /\ UvSeq(new)[k] = old.uvs.val[v + 1]

\* C4 witness: a mesh with UVs lost vertex 0 and kept at least two vertices,
\* so every kept UV moved to a new index
C4_Witness ==
    /\ cpc = "mesh_deleted"
    /\ input.meshes[1].uvs.some
    /\ 0 \in input.meshes[1].indices_to_delete
    /\ Len(model.meshes[1].positions) >= 2


\* ------------------------------------------------------------------------
\* Properties of the whole program (Spec)
\* ------------------------------------------------------------------------

\* a spawned thread that has neither returned nor panicked
Active(pcs) == \E w \in Workers : pcs[w] \notin {"idle", "returned", "panicked"}
Started(pcs) == \E w \in Workers : pcs[w] # "idle"
AllReturned(pcs) == \A w \in Workers : pcs[w] = "returned"

DriverIn(stages) == dpc \in stages

\* C9: the stages never overlap in time.  No overlap-detection worker has
\* started unless every NQ load is in the pool and every loader is done; no
\* carve worker has started unless every overlap-detection worker has
\* returned; no write worker has started unless every carve worker has
\* returned; and once the driver is past a stage method, every worker that
\* method spawned has finished.
C9_StagesNeverOverlap ==
    /\ Started(hpc) => AllReturned(lpc) /\ tx_task = <<>> /\ tx_resp = <<>>
    /\ (Started(hpc) /\ ~Started(cw_pc)) =>
            /\ Len(normal_assets) = NumNQ
            /\ {normal_assets[i].source_file : i \in 1..NumNQ}
                    = {NQPath(n) : n \in NQFiles}
    /\ Started(cw_pc) => AllReturned(hpc)
    /\ Started(wpc) => AllReturned(cw_pc)
    /\ ~DriverIn({"new", "new_send_tasks", "new_send_terminate", "new_collect"})
            => AllReturned(lpc)
    /\ DriverIn({"mark_and_delete_vertices", "mark_and_delete_vertices_join",
                 "write_to_folder", "write_to_folder_join", "exit"})
            => AllReturned(hpc)
    /\ DriverIn({"write_to_folder", "write_to_folder_join", "exit"})
            => AllReturned(cw_pc)
    /\ DriverIn({"exit"}) => AllReturned(wpc)

\* every stage has handed over to the next and a write worker is writing
\* what the earlier stages produced
C9_Witness ==
    /\ \E w \in Workers : wpc[w] = "write"
    /\ \E w \in Workers : wpc[w] = "loop"
    /\ AllReturned(lpc) /\ AllReturned(hpc) /\ AllReturned(cw_pc)
    /\ dest # {}

AnyPanicked == \E w \in Workers : "panicked" \in {lpc[w], hpc[w], cw_pc[w], wpc[w]}

\* C10: a failure inside a worker thread terminates the process.  While the
\* process is still running after a worker has panicked, some thread can
\* still take a step (the driver is not blocked for good), and no worker of
\* a later stage has been started.
C10_WorkerFailureTerminates ==
    /\ (proc = "running" /\ AnyPanicked) => ENABLED Next
    /\ (\E w \in Workers : lpc[w] = "panicked") => ~Started(hpc)
    /\ (\E w \in Workers : hpc[w] = "panicked") => ~Started(cw_pc)
    /\ (\E w \in Workers : cw_pc[w] = "panicked") => ~Started(wpc)
    /\ AnyPanicked => proc # "exited"

\* the program has run to completion: every thread of every stage has
\* returned, every channel and queue is empty, the driver has counted one
\* Terminated per loader, and the process has exited
Completed ==
    /\ proc = "exited"
    /\ AllReturned(lpc) /\ AllReturned(hpc)
    /\ AllReturned(cw_pc) /\ AllReturned(wpc)
    /\ num_running = 0
    /\ tx_task = <<>> /\ tx_resp = <<>>
    /\ process_queue = <<>> /\ assets = <<>> /\ tasks = <<>>
    /\ \A i \in 1..Len(readers) : readers[i] = {} /\ writer[i] = 0

\* C11: when no worker fails, the pipeline runs to completion.  Under fair
\* scheduling of the threads, every run in which no worker panics reaches
\* the state where every loader has consumed a Terminate and returned and
\* the driver has counted them all, every overlap-detection worker has
\* returned on an empty HQ queue, the carve and write queues are drained,
\* and the process has exited.
C11_RunsToCompletion == <>(AnyPanicked \/ Completed)

\* a completed run without any failure that wrote output
C11_Witness ==
    /\ Completed
    /\ ~AnyPanicked
    /\ Cardinality(dest) >= NumHQ

\* ------------------------------------------------------------------------
\* Properties of the write stage (SpecWrite)
\* ------------------------------------------------------------------------

\* C12 (as claimed): with several workers writing into the same folder, a
\* destination texture that exists is never written again: every
\* destination texture path is written at most once in the run.
C12_TextureWrittenOnce ==
    \A t \in TextureFiles : textures[t].writes <= 1

\* ------------------------------------------------------------------------
\* Properties of the overlap geometry (SpecCover)
\* ------------------------------------------------------------------------

\* the vertex is skipped by the AABB test of calc_overlapping_vertice_idxs
SkippedByAabb(self, other, v) ==
    LET intersection ==
            Aabb_intersection(compute_aabb(self.positions),
                              compute_aabb(other.positions))
    IN  ~intersection.some \/ ~Aabb_is_inside(intersection.val, v)

\* C13 (as claimed): the AABB pruning never masks a true positive.  Every
\* vertex of the NQ mesh that calc_overlapping_vertice_idxs skips because it
\* is not inside self.aabb /\ other.aabb, or because that intersection is
\* empty, is not covered: vertex_overlapping(v, other, 4 * mean_edge_len)
\* is false.
C13_PruningNeverMasks ==
    (gpc = "returned" /\ gin.op = "calc_overlapping_vertice_idxs") =>
        \A i \in 1..Len(gin.self.positions) :
            LET v == gin.self.positions[i]
            IN  (i - 1 \notin Range(gout) /\ SkippedByAabb(gin.self, gin.other, v))
                => ~vertex_overlapping(v, gin.other,
                                       Times4(mean_edge_len(gin.self)))

\* the axes along which all corners of the triangle mesh m share a coordinate
PlaneAxes(m) ==
    {a \in 1..3 : \A i \in 1..3 : m.positions[i][a] = m.positions[1][a]}

\* v moved along axis a to the coordinate c
MovedTo(v, a, c) == [v EXCEPT ![a] = c]

\* the orthogonal projection of v onto the plane of m falls inside the
\* dilated triangle
ProjectsInside(v, m, a) ==
    ~OutsideFootprint(MovedTo(v, a, m.positions[1][a]),
                      m.positions[1], m.positions[2], m.positions[3])

C15_MonotoneInThreshold ==
    (gpc = "returned" /\ gin.op = "vertex_overlapping" /\ gout = TRUE) =>
        \A t2 \in gin.threshold..(MaxThreshold + 1) :
            vertex_overlapping(gin.vertex, gin.other, Whole(t2))

\* a point covered at its threshold that a smaller threshold does not cover
C15_Witness ==
    /\ gpc = "returned"
    /\ gin.op = "vertex_overlapping"
    /\ gout = TRUE
    /\ gin.threshold > 0
    /\ PlaneAxes(gin.other) = {}
    /\ ~vertex_overlapping(gin.vertex, gin.other, Whole(gin.threshold - 1))

\* ------------------------------------------------------------------------
\* Properties of Stage 1 (Spec)
\* ------------------------------------------------------------------------

\* the Terminate sentinels the driver has sent so far
TerminatesSent ==
    IF dpc \in {"new", "new_send_tasks"} THEN 0
    ELSE IF dpc = "new_send_terminate" THEN di - 1
    ELSE NumWorkers

\* the Terminate sentinels still in the task channel
TerminatesQueued ==
    Cardinality({i \in DOMAIN tx_task : tx_task[i] = Terminate})

\* the workers that have taken a Terminate from the task channel
Terminating == {w \in Workers : lpc[w] \in {"terminate", "returned"}}

\* the driver has counted one Terminated per worker
AllTerminatedCounted ==
    proc = "running" /\ dpc = "new_collect" /\ num_running = 0

\* the pool entries loaded from NQ file n
PoolEntriesOf(n) ==
    {i \in DOMAIN normal_assets : normal_assets[i].source_file = NQPath(n)}

\* every sentinel sent is in the channel or with a worker of its own; once
\* W Terminated are counted every worker has taken one and the pool holds
\* the Model of each NQ file once
SentinelsAccounted ==
    /\ TerminatesQueued + Cardinality(Terminating) = TerminatesSent
    /\ AllTerminatedCounted =>
            /\ Terminating = Workers
            /\ tx_task = <<>>
            /\ Len(normal_assets) = NumNQ
            /\ \A n \in NQFiles :
                    /\ Cardinality(PoolEntriesOf(n)) = 1
                    /\ \A i \in PoolEntriesOf(n) :
                            normal_assets[i] = Model_try_new_from_file_nq(n)

\* a worker that has taken a Terminate takes nothing more from the channel,
\* and a step takes at most one message
OneSentinelEach ==
    /\ \A w \in Terminating : lpc'[w] \in {"terminate", "returned"}
    /\ Len(tx_task') >= Len(tx_task) - 1

\* C20: in Stage 1 each worker consumes exactly one Terminate, and at the
\* moment the driver has counted W Terminated responses the NQ pool holds
\* exactly one Model per enumerated NQ file, in every interleaving.
C20_PoolCompleteAtCount == []SentinelsAccounted /\ [][OneSentinelEach]_vars

\* the driver has counted W Terminated and the pool holds the Models in
\* another order than the tasks were sent
C20_Witness ==
    /\ AllTerminatedCounted
    /\ Len(normal_assets) = NumNQ
    /\ normal_assets[1].source_file # NQPath(1)

\* ------------------------------------------------------------------------
\* Properties of Stage 2 (Spec)
\* ------------------------------------------------------------------------

\* how often x occurs in a list
Count(list, x) == Cardinality({i \in DOMAIN list : list[i] = x})

\* every hq_asset_worker has returned and the pool is still in place
Stage2Done ==
    /\ proc = "running"
    /\ dpc \in {"process_overlaps_join", StageAfter("process_overlaps")}
    /\ AllReturned(hpc)

\* the HQ files whose Model AABB intersects the AABB of nq
IntersectingHQ(nq) ==
    {j \in DOMAIN hq_asset_files :
        AabbIntersects(scene, nq, Model_try_new_from_file_hq(hq_asset_files[j]))}

\* occurrences of x in the union of calc_overlapping_vertice_idxs of mesh k
\* of nq against every intersecting HQ file
UnionCount(nq, k, x) ==
    LET n[j \in 0..Len(hq_asset_files)] ==
            IF j = 0 THEN 0
            ELSE n[j - 1] +
                 (IF j \in IntersectingHQ(nq)
                  THEN Count(calc_overlapping_vertice_idxs(scene, nq, k,
                            Model_try_new_from_file_hq(hq_asset_files[j])), x)
                  ELSE 0)
    IN  n[Len(hq_asset_files)]

Stage2Sound ==
    /\ proc = "running"
    /\ dpc = "process_overlaps_join"
    /\ \A w \in Workers : hpc[w] # "panicked"

\* the workers that hold the Model of HQ path h
HeldBy(h) ==
    {w \in Workers : hq_asset[w] # NoModel /\ hq_asset[w].source_file = HQPath(h)}

\* the positions of list at which a reference to HQ path h stands
RecordsOf(list, h) ==
    {i \in DOMAIN list : list[i].source_file = HQPath(h)}

\* the passthrough records of HQ files in out_assets
HqPassthroughs ==
    {i \in DOMAIN out_assets :
        /\ out_assets[i].kind = "AssetRef"
        /\ out_assets[i].ref.source_file[1] = "hq"}

\* each HQ path is in the queue, with one worker, or recorded once; after
\* process_overlaps returned each has one passthrough record of factor 1
HqPathsAccounted ==
    /\ Stage2Sound =>
            \A j \in DOMAIN hq_asset_files :
                LET h == hq_asset_files[j]
                IN  Count(process_queue, h) + Cardinality(HeldBy(h))
                        + Cardinality(RecordsOf(hq_refs, h)) = 1
    /\ (proc = "running" /\ dpc = StageAfter("process_overlaps")) =>
            /\ Cardinality(HqPassthroughs) = Len(hq_asset_files)
            /\ \A i \in HqPassthroughs :
                    out_assets[i].ref.texture_downscale_factor = 1
            /\ \A j \in DOMAIN hq_asset_files :
                    Cardinality({i \in HqPassthroughs :
                        out_assets[i].ref.source_file
                            = HQPath(hq_asset_files[j])}) = 1

\* a worker moves on to the next pool entry only from the entry it has read,
\* and pushes the reference of its HQ Model only after the last pool entry
HqScansWholePool ==
    \A w \in Workers :
        /\ (hn'[w] # hn[w] /\ hn'[w] # 1) =>
                /\ hn'[w] = hn[w] + 1
                /\ hpc[w] \in {"reading", "writing"}
        /\ (hq_asset[w] # NoModel /\ hq_asset'[w] = NoModel) =>
                /\ hn[w] = Len(normal_assets) + 1
                /\ Len(normal_assets) = NumNQ
                /\ hq_refs' = Append(hq_refs,
                        ModelReference_from_model(hq_asset[w], 1))

\* C18: in Stage 2 without a panic every enumerated HQ path is popped by
\* exactly one worker, that worker reads every NQ Model of the pool before
\* it records the path, the path yields exactly one passthrough record of
\* texture downscale factor 1, and when process_overlaps returns there are
\* as many HQ passthrough records as HQ paths.
C18_EachHqPathOnce == []HqPathsAccounted /\ [][HqScansWholePool]_vars

\* process_overlaps has returned with one record per HQ path, recorded in
\* another order than the paths were popped
C18_Witness ==
    /\ proc = "running"
    /\ dpc = StageAfter("process_overlaps")
    /\ Cardinality(HqPassthroughs) = NumHQ
    /\ out_assets[1].ref.source_file = HQPath(hq_asset_files[1])

\* process_overlaps is running
InStage2 == proc = "running" /\ dpc \in {"process_overlaps", "process_overlaps_join"}

\* a Model without what Stage 2 records in it
WithoutOverlaps(mdl) ==
    [mdl EXCEPT !.meshes =
        [k \in 1..Len(mdl.meshes) |->
            [mdl.meshes[k] EXCEPT !.overlapping_vertice_idxs = <<>>]]]

\* list a is the beginning of list b
IsPrefix(a, b) == Len(a) <= Len(b) /\ SubSeq(b, 1, Len(a)) = a

\* a step of Stage 2 leaves the pool, the meshes and their geometry as
\* they are; a mesh list only grows at its end, and only in a step after
\* which a worker holds the write lock of that Model and nobody reads it
Stage2Frame ==
    InStage2 =>
        /\ scene' = scene
        /\ Len(normal_assets') = Len(normal_assets)
        /\ \A i \in DOMAIN normal_assets :
            /\ WithoutOverlaps(normal_assets'[i]) = WithoutOverlaps(normal_assets[i])
            /\ \A k \in DOMAIN normal_assets[i].meshes :
                    IsPrefix(normal_assets[i].meshes[k].overlapping_vertice_idxs,
                             normal_assets'[i].meshes[k].overlapping_vertice_idxs)
            /\ normal_assets'[i] # normal_assets[i] =>
                    /\ writer[i] = 0
                    /\ writer'[i] \in Workers
                    /\ readers'[i] = {}

\* every recorded index is an index of a vertex of its mesh
OverlapsInRange ==
    \A i \in DOMAIN normal_assets :
        \A k \in DOMAIN normal_assets[i].meshes :
            LET m == normal_assets[i].meshes[k]
            IN  \A x \in Range(m.overlapping_vertice_idxs) :
                    x \in 0..(Len(m.positions) - 1)

\* C19: during Stage 2 nothing of an NQ Model changes but the
\* overlapping_vertice_idxs of its meshes, which only grow by appends made
\* with the write lock held; positions, indices, UVs, AABBs and the number
\* and order of meshes stay as loaded, so every recorded index is below
\* the vertex count of its mesh.
C19_Stage2OnlyAppends == []OverlapsInRange /\ [][Stage2Frame]_vars

\* a worker holds the write lock of a Model in which a mesh has received
\* the lists of two HQ files, one after the other
C19_Witness ==
    /\ InStage2
    /\ \E i \in DOMAIN normal_assets :
        /\ writer[i] \in Workers
        /\ \E k \in DOMAIN normal_assets[i].meshes :
                Len(normal_assets[i].meshes[k].overlapping_vertice_idxs) = 4

\* ------------------------------------------------------------------------
\* Properties of the spatial index (SpecGrid)
\* ------------------------------------------------------------------------

\* the flat index list read as triples
Triples(ind) == {SubSeq(ind, 3 * j - 2, 3 * j) : j \in 1..(Len(ind) \div 3)}

\* v lies in the axis-aligned box [p - threshold, p + threshold]
InBox(v, p, threshold) ==
    \A k \in 1..3 : p[k] - threshold <= v[k] /\ v[k] <= p[k] + threshold

\* C16: for an index populated from a mesh, the query at (p, threshold)
\* returns every triangle of the mesh that has at least one corner inside
\* the box [p - threshold, p + threshold], for coordinates of either sign.
C16_QueryReturnsBoxTriangles ==
    (gpc = "returned" /\ gin.op = "get_indices") =>
        \A t \in 1..NumTris(gin.mesh.indices) :
            LET tri == Tri(gin.mesh.indices, t)
            IN  (\E j \in 1..3 :
                    InBox(gin.mesh.positions[tri[j] + 1], gin.p, gin.threshold))
                => tri \in Triples(gout.indices)

\* a query on the positive side that returns a triangle for a corner on the
\* negative side, a corner that lies in another cell than the query point
C16_Witness ==
    /\ gpc = "returned"
    /\ gin.op = "get_indices"
    /\ gin.p[1] > 0
    /\ \E t \in 1..NumTris(gin.mesh.indices) :
        LET tri == Tri(gin.mesh.indices, t)
        IN  /\ tri \in Triples(gout.indices)
            /\ \E j \in 1..3 :
                LET v == gin.mesh.positions[tri[j] + 1]
                IN  /\ v[1] < 0
                    /\ InBox(v, gin.p, gin.threshold)
                    /\ CellOf(v) # CellOf(gin.p)

\* floor(x * R) for a coordinate x, in whole cells
FloorCell(x) == (x * GRID_RESOLUTION) \div Units
FloorCellOf(p) == [k \in 1..3 |-> FloorCell(p[k])]

\* the corners of the triangles of mesh
Corners(mesh) ==
    {mesh.positions[mesh.indices[i] + 1] : i \in 1..(3 * NumTris(mesh.indices))}

\* C21: the index files each triangle corner under the cell floor(coord * R)
\* and the query box runs from floor((p - threshold) * R) to
\* floor((p + threshold) * R), for negative coordinates as for positive ones.
C21_CellIsFloor ==
    (gin.op = "get_indices" /\ gpc \in {"populated", "returned"}) =>
        /\ DOMAIN gout.index_grid = {FloorCellOf(v) : v \in Corners(gin.mesh)}
        /\ CellOf([k \in 1..3 |-> gin.p[k] - gin.threshold])
                = FloorCellOf([k \in 1..3 |-> gin.p[k] - gin.threshold])
        /\ CellOf([k \in 1..3 |-> gin.p[k] + gin.threshold])
                = FloorCellOf([k \in 1..3 |-> gin.p[k] + gin.threshold])

\* ------------------------------------------------------------------------
\* Uncovered geometry through mark and delete (SpecCarve)
\* ------------------------------------------------------------------------

\* the triangles of a mesh as triples of positions, in index order
PositionTriangles(m) ==
    [t \in 1..NumTris(m.indices) |->
        [k \in 1..3 |-> m.positions[Tri(m.indices, t)[k] + 1]]]

\* the triangles of m that have three distinct corners, one of them at least
\* not recorded as overlapping
UncoveredTriangles(m) ==
    {t \in 1..NumTris(m.indices) :
        /\ Cardinality(Range(Tri(m.indices, t))) = 3
        /\ Range(Tri(m.indices, t)) \ Range(m.overlapping_vertice_idxs) # {}}

\* the entries of list at the positions in S, in order
SelectSeqOf(list, S) ==
    LET pos == Ascending(S) IN [k \in 1..Len(pos) |-> list[pos[k]]]

\* a is found in b, entry by entry in the same order, from position j on
RECURSIVE Embeds(_, _, _)
Embeds(a, b, j) ==
    IF a = <<>> THEN TRUE
    ELSE IF j > Len(b) THEN FALSE
    ELSE IF b[j] = Head(a) THEN Embeds(Tail(a), b, j + 1)
    ELSE Embeds(a, b, j + 1)

\* the uncovered geometry of the marked mesh old is all in the carved mesh new
UncoveredSurvives(old, new) ==
    /\ \A v \in Verts(vertex_count(old)) \ Range(old.overlapping_vertice_idxs) :
            old.positions[v + 1] \in Range(new.positions)
    /\ Embeds(SelectSeqOf(PositionTriangles(old), UncoveredTriangles(old)),
              PositionTriangles(new), 1)

\* C22: when a marked Model is carved, each mesh that is not flagged
\* to_be_deleted keeps every vertex that is not in overlapping_vertice_idxs,
\* and keeps every triangle of three distinct corners that has a corner not
\* in overlapping_vertice_idxs, at the same three positions and in the
\* original triangle order.
C22_UncoveredGeometrySurvives ==
    [][(cpc = "marked" /\ cpc' = "loop" /\ Len(results') > Len(results)
            /\ results'[Len(results')].kind = "Asset") =>
        LET kept == Unflagged(model.meshes)
            carved == results'[Len(results')].model.meshes
        IN  /\ Len(carved) = Len(kept)
            /\ \A j \in 1..Len(kept) : UncoveredSurvives(kept[j], carved[j])
    ]_vars

\* a carved mesh that lost a vertex and a triangle and kept a triangle one
\* of whose corners is recorded as overlapping
C22_Witness ==
    /\ Processed
    /\ Len(input.meshes) = 1
    /\ Len(results) = 1
    /\ results[1].kind = "Asset"
    /\ Len(results[1].model.meshes) = 1
    /\ LET old == input.meshes[1]
           new == results[1].model.meshes[1]
       IN  /\ vertex_count(new) < vertex_count(old)
           /\ NumTris(new.indices) < NumTris(old.indices)
           /\ \E t \in UncoveredTriangles(old) :
                /\ Range(Tri(old.indices, t))
                        \cap Range(old.overlapping_vertice_idxs) # {}
                /\ \E u \in 1..NumTris(new.indices) :
                        PositionTriangles(new)[u] = PositionTriangles(old)[t]

====
